---- MODULE Spec2Model ----
(***************************************************************************)
(* Travel_bot: the persistence layer (db.py) with its degrade-to-memory    *)
(* failover, and the dialogue controller (bot/handlers.py) that drives it. *)
(*                                                                         *)
(* Python's Optional[T] is modelled as a set: None is {} and a value v is  *)
(* {v}.  A str is a sequence of tokens (words and the blank " "), so that  *)
(* strip() and split() are computed and "" (the empty sequence) differs    *)
(* from None.  A dict is a function whose DOMAIN is the set of its keys.   *)
(***************************************************************************)
EXTENDS Integers, Sequences, FiniteSets, TLC

(* ------------------------------ bounds -------------------------------- *)
\* external user ids (tg_id) are 1..MaxUsers
MaxUsers == 1

\* places one nearby search may return (config.MAX_RESULTS caps the real list)
MaxPlaces == 1

\* the longest distance formatted, in metres
MaxMetres == 16000

\* updates that arrive in one run of the update queue
MaxUpdates == 3

\* results one Geocoding response may carry
MaxCandidates == 3

Users == 1..MaxUsers

(* ------------------------------ values -------------------------------- *)
None == {}
Some(v) == {v}
\* Python truthiness of an Optional[str]: None and "" are falsy
Truthy(o) == o # None /\ o # Some(<<>>)
\* the value inside a non-None Optional
The(o) == CHOOSE v \in o : TRUE

FieldNames == {"language", "first_name", "last_name", "phone"}
NoFields == [language |-> None, first_name |-> None, last_name |-> None, phone |-> None]

\* the drivers db.py tries to import, and the values upsert_user is called with
Drivers == {"psycopg3"}
ArgLanguage == {None, Some(<<"uz">>), Some(<<"en">>)}
ArgFirstName == {None, Some(<<"Ann">>)}
ArgLastName == {None, Some(<<"Lee">>)}
ArgPhone == {None, Some(<<"+998">>)}
ArgFields == [language : ArgLanguage, first_name : ArgFirstName,
              last_name : ArgLastName, phone : ArgPhone]

VARIABLES
  DB_DRIVER,          \* _DB_DRIVER: None or Some(driver), set at import
  DB_URL,             \* whether _build_db_url() returned a connection string
  _IN_MEMORY_MODE,    \* Persistence Mode: TRUE is Memory-fallback
  _mem_users_by_tg,   \* the in-process store: tg_id -> row
  _mem_next_id,       \* next internal id of the in-process store
  pg_table,           \* whether table users exists in PostgreSQL
  pg_users,           \* rows of table users: tg_id -> row
  pg_next_id,         \* the id the next new row of users gets (SERIAL)
  conversations,      \* ConversationHandler's state of each conversation: tg_id -> state
  user_data,          \* context.user_data of each user: a dict
  out,                \* the messages sent while the last event was processed
  supplied,           \* history: tg_id -> last non-None value given to upsert_user, per field
  script,             \* history: how many of the user's events follow EndToEnd, OffScript after a detour
  last,               \* the operation that produced this state and what it returned
  update_queue,       \* Application.update_queue: the updates that arrived and are not taken yet
  running,            \* the handler coroutines that were started and have not finished
  arrived             \* history: how many updates have arrived

dbvars == <<DB_DRIVER, DB_URL, _IN_MEMORY_MODE, _mem_users_by_tg, _mem_next_id,
            pg_table, pg_users, pg_next_id>>
botvars == <<conversations, user_data, out, script>>
schedvars == <<update_queue, running, arrived>>
vars == <<dbvars, botvars, supplied, last, schedvars>>

(* ------------------------- persistence layer -------------------------- *)
\* The persistence state as one value, so that a handler can chain calls.
\* calls: connections to PostgreSQL attempted during this event;
\* failed: a backend operation failed (or could not be tried) during this event;
\* exc: the exception that escaped to the caller, None when the call returned.
DbState ==
  [driver |-> DB_DRIVER, url |-> DB_URL, mode |-> _IN_MEMORY_MODE,
   mem |-> _mem_users_by_tg, next |-> _mem_next_id,
   table |-> pg_table, pg |-> pg_users, seq |-> pg_next_id,
   calls |-> 0, failed |-> FALSE, exc |-> None]

SetDb(D) ==
  /\ DB_DRIVER' = D.driver
  /\ DB_URL' = D.url
  /\ _IN_MEMORY_MODE' = D.mode
  /\ _mem_users_by_tg' = D.mem
  /\ _mem_next_id' = D.next
  /\ pg_table' = D.table
  /\ pg_users' = D.pg
  /\ pg_next_id' = D.seq

\* COALESCE(EXCLUDED.col, users.col) and "if x is not None: row[x] = x"
Coalesce(new, old) == IF new # None THEN new ELSE old

Merge(row, f) ==
  [row EXCEPT !.language = Coalesce(f.language, @),
              !.first_name = Coalesce(f.first_name, @),
              !.last_name = Coalesce(f.last_name, @),
              !.phone = Coalesce(f.phone, @)]

NewRow(id, tg_id) ==
  [id |-> id, tg_id |-> tg_id,
   language |-> None, first_name |-> None, last_name |-> None, phone |-> None]

\* _memory_upsert, were it to rebuild the map from the row it writes
_memory_upsert_overwrites(D, tg_id, f) ==
  LET fresh == tg_id \notin DOMAIN D.mem
      row == IF fresh THEN NewRow(D.next, tg_id) ELSE D.mem[tg_id]
  IN [D EXCEPT !.mem = (tg_id :> Merge(row, f)),
               !.next = IF fresh THEN @ + 1 ELSE @]

\* _memory_upsert, were it to leave _mem_next_id as it was
_memory_upsert_reuses_id(D, tg_id, f) ==
  LET fresh == tg_id \notin DOMAIN D.mem
      row == IF fresh THEN NewRow(D.next, tg_id) ELSE D.mem[tg_id]
  IN [D EXCEPT !.mem = (tg_id :> Merge(row, f)) @@ D.mem]

_memory_upsert(D, tg_id, f) ==
  LET fresh == tg_id \notin DOMAIN D.mem
      row == IF fresh THEN NewRow(D.next, tg_id) ELSE D.mem[tg_id]
  IN [D EXCEPT !.mem = (tg_id :> Merge(row, f)) @@ D.mem,
               !.next = IF fresh THEN @ + 1 ELSE @]

_memory_get(D, tg_id) ==
  IF tg_id \in DOMAIN D.mem THEN Some(D.mem[tg_id]) ELSE None

_enable_memory_mode(D) == [D EXCEPT !.mode = TRUE]

\* psycopg.connect(DB_URL): one more connection attempt
Connect(D) == [D EXCEPT !.calls = @ + 1]

\* the except branch of init_db, upsert_user and get_user
BackendFailed(D) == [_enable_memory_mode(D) EXCEPT !.failed = TRUE]

\* init_db, were a successful bootstrap to switch back to PostgreSQL
init_db_recovers(D, ok) ==
  IF D.driver = None THEN BackendFailed(D)
  ELSE IF ~D.url THEN BackendFailed(D)
  ELSE IF ok THEN [Connect(D) EXCEPT !.table = TRUE, !.mode = FALSE]
  ELSE BackendFailed(Connect(D))

\* init_db, were a failed bootstrap to start from an empty in-process store
init_db_wipes(D, ok) ==
  IF D.driver = None THEN BackendFailed(D)
  ELSE IF ~D.url THEN BackendFailed(D)
  ELSE IF ok THEN [Connect(D) EXCEPT !.table = TRUE]
  ELSE [BackendFailed(Connect(D)) EXCEPT !.mem = <<>>, !.next = 1]

\* the statement runs iff the connection and the query succeed (ok) and,
\* for a query on users, the table exists
init_db(D, ok) ==
  IF D.driver = None THEN BackendFailed(D)
  ELSE IF ~D.url THEN BackendFailed(D)
  ELSE IF ok THEN [Connect(D) EXCEPT !.table = TRUE]
  ELSE BackendFailed(Connect(D))

\* INSERT ... ON CONFLICT (tg_id) DO UPDATE SET col = COALESCE(EXCLUDED.col, users.col);
\* a new row gets the next id (the values a conflicting INSERT skips leave gaps
\* that nothing reads)
SqlUpsert(D, tg_id, f) ==
  LET fresh == tg_id \notin DOMAIN D.pg
      row == IF fresh THEN NewRow(D.seq, tg_id) ELSE D.pg[tg_id]
  IN [D EXCEPT !.pg = (tg_id :> Merge(row, f)) @@ D.pg,
               !.seq = IF fresh THEN @ + 1 ELSE @]

NoBackend(D) == D.mode \/ D.driver = None \/ ~D.url

\* upsert_user, were the except branch only to switch the mode
upsert_user_no_retry(D, tg_id, f, ok) ==
  IF NoBackend(D)
    THEN _memory_upsert(IF ~D.mode THEN BackendFailed(D) ELSE D, tg_id, f)
  ELSE IF ok /\ D.table THEN SqlUpsert(Connect(D), tg_id, f)
  ELSE BackendFailed(Connect(D))

upsert_user(D, tg_id, f, ok) ==
  IF NoBackend(D)
    THEN _memory_upsert(IF ~D.mode THEN BackendFailed(D) ELSE D, tg_id, f)
  ELSE IF ok /\ D.table THEN SqlUpsert(Connect(D), tg_id, f)
  ELSE _memory_upsert(BackendFailed(Connect(D)), tg_id, f)

\* get_user, were a miss in the in-process store to file an empty row
get_user_creates(D, tg_id, ok) ==
  LET E == IF NoBackend(D) THEN (IF ~D.mode THEN BackendFailed(D) ELSE D)
           ELSE BackendFailed(Connect(D))
  IN IF ~NoBackend(D) /\ ok /\ D.table
       THEN [db |-> Connect(D),
             row |-> IF tg_id \in DOMAIN D.pg THEN Some(D.pg[tg_id]) ELSE None]
     ELSE [db |-> IF tg_id \in DOMAIN E.mem THEN E ELSE _memory_upsert(E, tg_id, NoFields),
           row |-> _memory_get(E, tg_id)]

\* SELECT ... FROM users WHERE tg_id=%s; returns [db, row]
get_user(D, tg_id, ok) ==
  IF NoBackend(D)
    THEN LET E == IF ~D.mode THEN BackendFailed(D) ELSE D
         IN [db |-> E, row |-> _memory_get(E, tg_id)]
  ELSE IF ok /\ D.table
    THEN [db |-> Connect(D),
          row |-> IF tg_id \in DOMAIN D.pg THEN Some(D.pg[tg_id]) ELSE None]
  ELSE LET E == BackendFailed(Connect(D))
       IN [db |-> E, row |-> _memory_get(E, tg_id)]

\* history: the last non-None value upsert_user was given for each field of tg_id
Supply(sup, tg_id, f) ==
  LET old == IF tg_id \in DOMAIN sup THEN sup[tg_id] ELSE NoFields
  IN (tg_id :> [n \in FieldNames |-> Coalesce(f[n], old[n])]) @@ sup

(* ------------------------------ str ------------------------------------ *)
\* Non-ASCII text of the source is transliterated: the flag emoji of the language
\* buttons are "[UZ]" "[RU]" "[GB]", the Cyrillic and o' letters are Latin, and
\* the icon that starts a label of bot/locale.py is spelled as a word.
IsBlank(tok) == tok = " "

RECURSIVE LStrip(_)
LStrip(t) == IF t # <<>> /\ IsBlank(Head(t)) THEN LStrip(Tail(t)) ELSE t

RECURSIVE RStrip(_)
RStrip(t) ==
  IF t # <<>> /\ IsBlank(t[Len(t)]) THEN RStrip(SubSeq(t, 1, Len(t) - 1)) ELSE t

\* str.strip()
Strip(t) == RStrip(LStrip(t))

\* str.split(): the words, as a list of str
RECURSIVE Split(_)
Split(t) ==
  IF t = <<>> THEN <<>>
  ELSE IF IsBlank(Head(t)) THEN Split(Tail(t))
  ELSE <<<<Head(t)>>>> \o Split(Tail(t))

\* " ".join(parts)
RECURSIVE Join(_)
Join(parts) ==
  IF parts = <<>> THEN <<>>
  ELSE IF Len(parts) = 1 THEN parts[1]
  ELSE parts[1] \o <<" ">> \o Join(Tail(parts))

\* str.lower(), on the words the model sends
LowerTok(tok) ==
  CASE tok = "O'zbekcha" -> "o'zbekcha"
    [] tok = "Russkiy" -> "russkiy"
    [] tok = "English" -> "english"
    [] tok = "Deutsch" -> "deutsch"
    [] OTHER -> tok

Lower(t) == [i \in 1..Len(t) |-> LowerTok(t[i])]

\* k in txt
Contains(k, txt) ==
  \E i \in 0..(Len(txt) - Len(k)) : SubSeq(txt, i + 1, i + Len(k)) = k

(* ------------------------ services/google_places.py --------------------- *)
\* max_tries of @backoff.on_exception
MAX_TRIES == 3

\* what one HTTP attempt meets: a network failure (requests raises), a
\* non-success status, a success status, a 302/303 redirect
\* (one attempt more than max_tries is described, so that a call that went on
\* after the last try would be seen)
AttemptOutcomes == {"neterr", "status", "ok", "redirect"}
Attempts == [1..(MAX_TRIES + 1) -> {"neterr", "status", "ok"}]
PhotoAttempts == [1..(MAX_TRIES + 1) -> AttemptOutcomes]

\* backoff.on_exception(backoff.expo, RequestException, max_tries=3): attempt i is
\* repeated while it raises and i < max_tries; the last exception is re-raised
RECURSIVE Backoff(_, _, _)
Backoff(att, raising, i) ==
  IF att[i] \notin raising THEN [raised |-> FALSE, tries |-> i, resp |-> att[i]]
  ELSE IF i >= MAX_TRIES THEN [raised |-> TRUE, tries |-> i, resp |-> att[i]]
  ELSE Backoff(att, raising, i + 1)

GeoResult(b, val) ==
  [exc |-> IF b.raised THEN Some("RequestException") ELSE None,
   val |-> IF b.raised THEN None ELSE val,
   tries |-> b.tries]

\* CATEGORY_TYPE_MAP, were its last key the English label of the category
CATEGORY_TYPE_MAP_by_label ==
  (<<"Restaurant">> :> <<"restaurant", "cafe", "bakery">>)
    @@ (<<"Hotel">> :> <<"lodging">>)
    @@ (<<"Park">> :> <<"park">>)
    @@ (<<"Historical", " ", "places">> :> <<"tourist_attraction", "museum", "art_gallery">>)

CATEGORY_TYPE_MAP ==
  (<<"Restaurant">> :> <<"restaurant", "cafe", "bakery">>)
    @@ (<<"Hotel">> :> <<"lodging">>)
    @@ (<<"Park">> :> <<"park">>)
    @@ (<<"Historic", " ", "Places">> :> <<"tourist_attraction", "museum", "art_gallery">>)

\* CATEGORY_TYPE_MAP.get(category) or None
_type_filter_for_category(category) ==
  IF category \in DOMAIN CATEGORY_TYPE_MAP /\ CATEGORY_TYPE_MAP[category] # <<>>
    THEN Some(CATEGORY_TYPE_MAP[category]) ELSE None

\* the body search_nearby posts: includedTypes is None when the key is not set
NearbyBody(lat, lng, category) ==
  [center |-> <<lat, lng>>, includedTypes |-> _type_filter_for_category(category)]

\* search_nearby: a non-success status raises through _raise_with_details;
\* places is data.get("places", []) of the successful response
search_nearby(att, places) ==
  GeoResult(Backoff(att, {"neterr", "status"}, 1), places)

\* search_text: places[0].get("location", {}) as [latitude, longitude], a missing
\* key being None
search_text(att, places) ==
  GeoResult(Backoff(att, {"neterr", "status"}, 1),
            IF places = <<>> THEN None
            ELSE Some(<<places[1].location.latitude, places[1].location.longitude>>))

\* get_photo_url: only a network failure raises
get_photo_url(att) ==
  LET b == Backoff(att, {"neterr"}, 1)
  IN GeoResult(b, IF b.resp = "redirect" THEN Some("Location")
                  ELSE IF b.resp = "ok" THEN Some("url")
                  ELSE None)

\* reverse_geocode: only a network failure raises; data is the response body
_has_type(r, types) == r.types \cap types # {}

preferred_orders ==
  << {"sublocality", "sublocality_level_1", "neighborhood"},
     {"route"},
     {"locality", "administrative_area_level_2"} >>

FirstWith(results, types) ==
  LET hits == {i \in 1..Len(results) : _has_type(results[i], types)}
  IN IF hits = {} THEN 0 ELSE CHOOSE i \in hits : \A j \in hits : i <= j

\* reverse_geocode's choice, were the loops nested the other way round
\* ("for r in results: for wanted in preferred_orders")
reverse_geocode_pick_by_candidate(data) ==
  LET results == data.results
      hits == {i \in 1..Len(results) :
                 \E k \in 1..Len(preferred_orders) : _has_type(results[i], preferred_orders[k])}
  IN IF results = <<>> THEN None
     ELSE IF hits # {}
       THEN results[CHOOSE i \in hits : \A j \in hits : i <= j].formatted_address
     ELSE IF Truthy(data.plus_code.compound_code) THEN data.plus_code.compound_code
     ELSE IF Truthy(data.plus_code.global_code) THEN data.plus_code.global_code
     ELSE results[1].formatted_address

reverse_geocode_pick(data) ==
  LET results == data.results
      tier == {k \in 1..Len(preferred_orders) : FirstWith(results, preferred_orders[k]) # 0}
  IN IF results = <<>> THEN None
     ELSE IF tier # {}
       THEN results[FirstWith(results,
                preferred_orders[CHOOSE k \in tier : \A j \in tier : k <= j])].formatted_address
     ELSE IF Truthy(data.plus_code.compound_code) THEN data.plus_code.compound_code
     ELSE IF Truthy(data.plus_code.global_code) THEN data.plus_code.global_code
     ELSE results[1].formatted_address

reverse_geocode(att, data) ==
  LET b == Backoff(att, {"neterr"}, 1)
  IN GeoResult(b, IF b.resp = "status" THEN None ELSE reverse_geocode_pick(data))

\* the responses the services give in the dialogue model
TextPlaces ==
  {<<>>,
   <<[location |-> [latitude |-> Some(39), longitude |-> Some(66)]]>>,
   <<[location |-> [latitude |-> None, longitude |-> None]]>>}

NoPlusCode == [compound_code |-> None, global_code |-> None]
GeocodeData ==
  <<[results |-> <<>>, plus_code |-> NoPlusCode],
    [results |-> <<[types |-> {"route"}, formatted_address |-> Some(<<"Registon">>)]>>,
     plus_code |-> NoPlusCode]>>

\* a place of a nearby search: whether photos[0].name is present
Places == [photo : BOOLEAN]
NearbyPlaces == UNION {[1..n -> Places] : n \in 0..MaxPlaces}

\* what the dialogue gets from each call: the exception or the value
Seen(r) == [exc |-> r.exc, val |-> r.val]
SearchTextSeen == {Seen(search_text(att, ps)) : att \in Attempts, ps \in TextPlaces}
SearchNearbySeen == {Seen(search_nearby(att, ps)) : att \in Attempts, ps \in NearbyPlaces}
ReverseGeocodeSeen ==
  {Seen(reverse_geocode(att, GeocodeData[k])) : att \in Attempts, k \in DOMAIN GeocodeData}
PhotoSeen == {Seen(get_photo_url(att)) : att \in PhotoAttempts}

(* ------------------------------ bot/locale.py --------------------------- *)
Langs == {<<"uz">>, <<"ru">>, <<"en">>}

\* L["back"][lang], L["settings_button"][lang], L["categories"][lang]
L_back(lang) ==
  CASE lang = <<"uz">> -> <<"<-", " ", "Orqaga">>
    [] lang = <<"ru">> -> <<"<-", " ", "Nazad">>
    [] lang = <<"en">> -> <<"<-", " ", "Back">>

L_settings_button(lang) ==
  CASE lang = <<"uz">> -> <<"gear", " ", "Sozlamalar">>
    [] lang = <<"ru">> -> <<"gear", " ", "Nastroyki">>
    [] lang = <<"en">> -> <<"gear", " ", "Settings">>

L_edit_name(lang) ==
  CASE lang = <<"uz">> -> <<"pencil", " ", "Ism/Familiya">>
    [] lang = <<"ru">> -> <<"pencil", " ", "Imya/Familiya">>
    [] lang = <<"en">> -> <<"pencil", " ", "Name/Surname">>

L_edit_phone(lang) ==
  CASE lang = <<"uz">> -> <<"phone", " ", "Telefon", " ", "raqami">>
    [] lang = <<"ru">> -> <<"phone", " ", "Nomer", " ", "telefona">>
    [] lang = <<"en">> -> <<"phone", " ", "Phone", " ", "number">>

L_categories(lang) ==
  CASE lang = <<"uz">> -> << <<"plate", " ", "Restoran">>, <<"hotel", " ", "Mehmonxona">>,
                            <<"tree", " ", "Park">>, <<"column", " ", "Tarixiy", " ", "joylar">> >>
    [] lang = <<"ru">> -> << <<"plate", " ", "Restorany">>, <<"hotel", " ", "Oteli">>,
                            <<"tree", " ", "Parki">>, <<"column", " ", "Istoricheskie", " ", "mesta">> >>
    [] lang = <<"en">> -> << <<"plate", " ", "Restaurants">>, <<"hotel", " ", "Hotels">>,
                            <<"tree", " ", "Parks">>, <<"column", " ", "Historical", " ", "places">> >>

\* an outbound message: the key of L it shows, its language, and its keyboard
Msg(key, lang, kb) == [key |-> key, lang |-> lang, kb |-> kb]

(* ------------------------------ bot/handlers.py ------------------------- *)
ENG_CATEGORIES == <<<<"Restaurant">>, <<"Hotel">>, <<"Park">>, <<"Historic", " ", "Places">>>>

States == {"LANG", "FIRST_NAME", "LAST_NAME", "CONTACT", "WAIT_LOCATION_OR_TEXT",
           "CHOOSE_CATEGORY", "SETTINGS", "EDIT_NAME", "EDIT_PHONE"}

\* what a handler works on and leaves behind: the persistence state, the
\* conversation's user_data, the upsert history, the messages sent, the calls of
\* services.google_places it made (geo), the state it returned (ret) or the
\* exception it raised (exc)
Ctx(D, ud, sup) ==
  [db |-> D, ud |-> ud, sup |-> sup, out |-> <<>>, geo |-> <<>>,
   ret |-> None, exc |-> None]

Reply(X, m) == [X EXCEPT !.out = Append(@, m)]
Return(X, state) == [X EXCEPT !.ret = Some(state)]
Raise(X, e) == [X EXCEPT !.exc = Some(e)]
\* await asyncio.to_thread(op, ...): r is what the call gives, n the number of
\* places of a nearby search
Called(X, op, r, n) ==
  [X EXCEPT !.geo = Append(@, [op |-> op, raised |-> r.exc # None, n |-> n])]
Upsert(X, tg_id, f, ok) ==
  [X EXCEPT !.db = upsert_user(@, tg_id, f, ok), !.sup = Supply(@, tg_id, f)]

\* get_lang: [db, lang]
get_lang(D, tg_id, ok) ==
  LET r == get_user(D, tg_id, ok)
  IN [db |-> r.db,
      lang |-> IF r.row # None /\ Truthy(The(r.row).language)
                 THEN The(The(r.row).language) ELSE <<"en">>]

_category_items_for_lang(lang) ==
  LET localized == L_categories(lang)
  IN [i \in 1..Len(localized) |->
        <<localized[i],
          IF i <= Len(ENG_CATEGORIES) THEN ENG_CATEGORIES[i] ELSE localized[i]>>]

\* _fmt_distance_km(dkm) for dkm = m / 1000.0 with m whole metres; the str it
\* returns is [whole, frac, unit]: "2.3 km" is [whole |-> 2, frac |-> Some(3),
\* unit |-> "km"], "500 m" is [whole |-> 500, frac |-> None, unit |-> "m"].
\* int(dkm * 1000) is m.  f"{dkm:.1f}" rounds to the nearest tenth; when m lies
\* halfway between two tenths the binary value of dkm decides, which `up` stands
\* for.  round(dkm) rounds to the nearest integer, a half to the even one.
Distance(whole, frac, unit) == [whole |-> whole, frac |-> frac, unit |-> unit]

OneDecimal(m, up) ==
  LET tenths == IF m % 100 = 50 THEN (m \div 100) + (IF up THEN 1 ELSE 0)
                ELSE (m + 50) \div 100
  IN Distance(tenths \div 10, Some(tenths % 10), "km")

Round(m) ==
  LET k == m \div 1000
      r == m % 1000
  IN IF r < 500 THEN k
     ELSE IF r > 500 THEN k + 1
     ELSE IF k % 2 = 0 THEN k ELSE k + 1

\* _fmt_distance_km, were the last branch int(dkm)
_fmt_distance_km_truncates(m, up) ==
  IF m < 1000 THEN Distance(m, None, "m")
  ELSE IF m < 10000 THEN OneDecimal(m, up)
  ELSE Distance(m \div 1000, None, "km")

_fmt_distance_km(m, up) ==
  IF m < 1000 THEN Distance(m, None, "m")
  ELSE IF m < 10000 THEN OneDecimal(m, up)
  ELSE Distance(Round(m), None, "km")

\* start, with the outcomes of the backend operations of init_db, get_user and
\* upsert_user
start_registered(row) ==
  /\ Truthy(row.language)
  /\ Truthy(row.first_name)
  /\ Truthy(row.last_name)
  /\ Truthy(row.phone)

start(X, tg_id, ok1, ok2, ok3) ==
  LET g == get_user(init_db(X.db, ok1), tg_id, ok2)
      X1 == [X EXCEPT !.db = g.db]
  IN IF g.row # None /\ start_registered(The(g.row))
       THEN Return(Reply(X1, Msg("ask_location_or_text", The(The(g.row).language), "location")),
                   "WAIT_LOCATION_OR_TEXT")
       ELSE Return(Reply(Upsert(X1, tg_id, NoFields, ok3),
                         Msg("lang_prompt", <<"en">>, "lang")),
                   "LANG")

\* the mapping of on_language, in insertion order
LanguageMapping ==
  << <<<<"o'zbekcha">>, <<"uz">>>>, <<<<"ozbekcha">>, <<"uz">>>>, <<<<"uzbek">>, <<"uz">>>>,
     <<<<"[UZ]", " ", "o'zbekcha">>, <<"uz">>>>,
     <<<<"russkiy">>, <<"ru">>>>, <<<<"russian">>, <<"ru">>>>,
     <<<<"[RU]", " ", "russkiy">>, <<"ru">>>>,
     <<<<"english">>, <<"en">>>>, <<<<"[GB]", " ", "english">>, <<"en">>>> >>

\* next((v for k, v in mapping.items() if k in txt), "en")
ClassifyLanguage(txt) ==
  LET hits == {i \in 1..Len(LanguageMapping) : Contains(LanguageMapping[i][1], txt)}
  IN IF hits = {} THEN <<"en">>
     ELSE LanguageMapping[CHOOSE i \in hits : \A j \in hits : i <= j][2]

\* on_language, were it to store the text it was sent
on_language_stores_text(X, tg_id, text, ok) ==
  LET lang == ClassifyLanguage(Lower(text))
  IN Return(Reply(Upsert(X, tg_id, [NoFields EXCEPT !.language = Some(Lower(text))], ok),
                  Msg("ask_name", lang, "remove")),
            "FIRST_NAME")

on_language(X, tg_id, text, ok) ==
  LET lang == ClassifyLanguage(Lower(text))
  IN Return(Reply(Upsert(X, tg_id, [NoFields EXCEPT !.language = Some(lang)], ok),
                  Msg("ask_name", lang, "remove")),
            "FIRST_NAME")

on_first_name(X, tg_id, text, ok1, ok2) ==
  LET g == get_lang(X.db, tg_id, ok1)
      X1 == [X EXCEPT !.db = g.db]
  IN Return(Reply(Upsert(X1, tg_id, [NoFields EXCEPT !.first_name = Some(Strip(text))], ok2),
                  Msg("ask_surname", g.lang, "none")),
            "LAST_NAME")

on_last_name(X, tg_id, text, ok1, ok2) ==
  LET g == get_lang(X.db, tg_id, ok1)
      X1 == [X EXCEPT !.db = g.db]
  IN Return(Reply(Upsert(X1, tg_id, [NoFields EXCEPT !.last_name = Some(Strip(text))], ok2),
                  Msg("ask_contact", g.lang, "contact")),
            "CONTACT")

\* ev.contact is the shared contact's phone_number, None for a text message
on_contact(X, tg_id, ev, ok1, ok2) ==
  LET g == get_lang(X.db, tg_id, ok1)
      X1 == [X EXCEPT !.db = g.db]
      phone == IF ev.contact # None THEN The(ev.contact) ELSE Strip(The(ev.text))
  IN Return(Reply(Upsert(X1, tg_id, [NoFields EXCEPT !.phone = Some(phone)], ok2),
                  Msg("ask_location_or_text", g.lang, "location")),
            "WAIT_LOCATION_OR_TEXT")

(* ------------------------------ bot/keyboards.py ----------------------- *)
\* settings_keyboard(edit_language_label, edit_name_label, edit_phone_label,
\* back_text) has four required parameters: a call with another number of
\* arguments raises TypeError before anything is sent
settings_keyboard(args) ==
  IF Len(args) = 4 THEN [kb |-> Some("settings"), exc |-> None]
  ELSE [kb |-> None, exc |-> Some("TypeError")]

(* --------------------- bot/handlers.py: search and settings ------------- *)
\* settings_entry: the reply's keyboard is built from three labels
settings_entry(X, tg_id, ok) ==
  LET g == get_lang(X.db, tg_id, ok)
      X1 == [X EXCEPT !.db = g.db]
      k == settings_keyboard(<<"edit_name", "edit_phone", "back">>)
  IN IF k.exc # None THEN Raise(X1, The(k.exc))
     ELSE Return(Reply(X1, Msg("settings_title", g.lang, The(k.kb))), "SETTINGS")

\* on_settings_choice: only the last branch builds the settings keyboard
on_settings_choice(X, tg_id, text, ok) ==
  LET g == get_lang(X.db, tg_id, ok)
      lang == g.lang
      X1 == [X EXCEPT !.db = g.db]
      choice == Strip(text)
      k == settings_keyboard(<<"edit_name", "edit_phone", "back">>)
  IN IF choice = L_back(lang)
       THEN Return(Reply(X1, Msg("ask_location_or_text", lang, "location")),
                   "WAIT_LOCATION_OR_TEXT")
     ELSE IF choice = L_edit_name(lang)
       THEN Return(Reply(X1, Msg("enter_new_name", lang, "remove")), "EDIT_NAME")
     ELSE IF choice = L_edit_phone(lang)
       THEN Return(Reply(X1, Msg("enter_new_phone", lang, "remove")), "EDIT_PHONE")
     ELSE IF k.exc # None THEN Raise(X1, The(k.exc))
     ELSE Return(Reply(X1, Msg("settings_title", lang, The(k.kb))), "SETTINGS")

\* on_edit_name: upsert_user runs before the arguments of reply_text are evaluated
on_edit_name(X, tg_id, text, ok1, ok2) ==
  LET g == get_lang(X.db, tg_id, ok1)
      X1 == [X EXCEPT !.db = g.db]
      full == Strip(text)
      parts == Split(full)
      first == IF Len(parts) >= 2 THEN parts[1] ELSE full
      last_ == IF Len(parts) >= 2 THEN Some(Join(Tail(parts))) ELSE None
      X2 == Upsert(X1, tg_id,
                   [NoFields EXCEPT !.first_name = Some(first), !.last_name = last_], ok2)
      k == settings_keyboard(<<"edit_name", "edit_phone", "back">>)
  IN IF k.exc # None THEN Raise(X2, The(k.exc))
     ELSE Return(Reply(X2, Msg("saved", g.lang, The(k.kb))), "SETTINGS")

\* on_edit_phone
on_edit_phone(X, tg_id, text, ok1, ok2) ==
  LET g == get_lang(X.db, tg_id, ok1)
      X1 == [X EXCEPT !.db = g.db]
      X2 == Upsert(X1, tg_id, [NoFields EXCEPT !.phone = Some(Strip(text))], ok2)
      k == settings_keyboard(<<"edit_name", "edit_phone", "back">>)
  IN IF k.exc # None THEN Raise(X2, The(k.exc))
     ELSE Return(Reply(X2, Msg("saved", g.lang, The(k.kb))), "SETTINGS")

SetQueryPoint(X, v) == [X EXCEPT !.ud = ("query_point" :> v) @@ @]

\* Located, were a missing latitude or longitude to be written as a number
Located_formats_none(X, lang, rg) ==
  LET X0 == Called(X, "reverse_geocode", rg, 0)
      X1 == IF rg.exc # None THEN Raise(X0, The(rg.exc))
            ELSE IF Truthy(rg.val) THEN Reply(X0, Msg("you_are_here", lang, "address"))
            ELSE Reply(X0, Msg("you_are_here", lang, "coordinates"))
  IN IF X1.exc # None THEN X1
     ELSE Return(Reply(Reply(X1, Msg("location", lang, "none")),
                       Msg("what_search", lang, "categories")),
                 "CHOOSE_CATEGORY")

\* on_location_or_text from "lat, lng = context.user_data["query_point"]" on;
\* rg is what reverse_geocode gives
Located(X, lang, rg) ==
  LET qp == The(X.ud["query_point"])
      lat == qp[1]
      lng == qp[2]
      X0 == Called(X, "reverse_geocode", rg, 0)
      X1 == IF rg.exc # None THEN Raise(X0, The(rg.exc))
            ELSE IF Truthy(rg.val) THEN Reply(X0, Msg("you_are_here", lang, "address"))
            ELSE IF lat = None \/ lng = None THEN Raise(X0, "TypeError")
            ELSE Reply(X0, Msg("you_are_here", lang, "coordinates"))
  IN IF X1.exc # None THEN X1
     ELSE Return(Reply(Reply(X1, Msg("location", lang, "none")),
                       Msg("what_search", lang, "categories")),
                 "CHOOSE_CATEGORY")

\* st is what search_text gives, rg what reverse_geocode gives
on_location_or_text(X, tg_id, ev, ok1, ok2, st, rg) ==
  LET g == get_lang(X.db, tg_id, ok1)
      lang == g.lang
      X1 == [X EXCEPT !.db = g.db]
      text_in == Strip(IF ev.text # None THEN The(ev.text) ELSE <<>>)
      X2 == SetQueryPoint(X1, None)
      X3 == Called(X2, "search_text", st, 0)
  IN IF text_in = L_settings_button(lang) THEN settings_entry(X1, tg_id, ok2)
     ELSE IF ev.location # None THEN Located(SetQueryPoint(X2, ev.location), lang, rg)
     ELSE IF st.exc # None THEN Raise(X3, The(st.exc))
     ELSE IF st.val = None
       THEN Return(Reply(X3, Msg("no_results", lang, "none")), "WAIT_LOCATION_OR_TEXT")
     ELSE Located(SetQueryPoint(X3, st.val), lang, rg)

\* the loop "for p in places" of on_choose_category: one card per place, a
\* photo card when get_photo_url gives a URL; photos[i] is what it gives for
\* place i
RECURSIVE RenderCards(_, _, _, _, _)
RenderCards(X, lang, places, photos, i) ==
  IF i > Len(places) THEN X
  ELSE LET X1 == IF places[i].photo THEN Called(X, "get_photo_url", photos[i], 0) ELSE X
           photo_url == IF places[i].photo THEN photos[i].val ELSE None
       IN IF places[i].photo /\ photos[i].exc # None THEN Raise(X1, The(photos[i].exc))
          ELSE RenderCards(Reply(X1, Msg(IF photo_url # None THEN "card_photo"
                                          ELSE "card_text", lang, "card")),
                           lang, places, photos, i + 1)

IsCallback(ev) == ev.data # None
StartsWithCat(text) == Len(text) >= 2 /\ text[1] = "cat" /\ text[2] = "|"

\* label_to_key.get(text): None when text is no label of the language
LabelToKey(lang, text) ==
  LET items == _category_items_for_lang(lang)
      hits == {i \in 1..Len(items) : items[i][1] = text}
  IN IF hits = {} THEN None ELSE Some(items[CHOOSE i \in hits : TRUE][2])

\* sn is what search_nearby gives
on_choose_category(X, tg_id, ev, ok, sn, photos) ==
  LET g == get_lang(X.db, tg_id, ok)
      lang == g.lang
      X1 == [X EXCEPT !.db = g.db]
      text == Strip(IF IsCallback(ev) THEN The(ev.data) ELSE The(ev.text))
      category_key == IF IsCallback(ev) /\ StartsWithCat(text)
                        THEN Some(SubSeq(text, 3, Len(text)))
                        ELSE LabelToKey(lang, text)
      has_key == "query_point" \in DOMAIN X.ud
      qp == IF has_key THEN X.ud["query_point"] ELSE Some(<<None, None>>)
  IN IF text = L_back(lang) \/ (IsCallback(ev) /\ text = <<"back_root">>)
       THEN Return(Reply(X1, Msg("ask_location_or_text", lang, "location")),
                   "WAIT_LOCATION_OR_TEXT")
     ELSE IF category_key = None THEN Return(X1, "CHOOSE_CATEGORY")
     ELSE IF qp = None THEN Raise(X1, "TypeError")
     ELSE IF The(qp)[1] = None
       THEN Return(Reply(X1, Msg("ask_location_or_text", lang, "location")),
                   "WAIT_LOCATION_OR_TEXT")
     ELSE LET X2 == Called(Reply(X1, Msg("searching", lang, "none")), "search_nearby", sn,
                           IF sn.exc = None THEN Len(sn.val) ELSE 0)
          IN IF sn.exc # None THEN Raise(X2, The(sn.exc))
             ELSE IF sn.val = <<>>
               THEN Return(Reply(X2, Msg("no_results", lang, "categories")),
                           "CHOOSE_CATEGORY")
             ELSE LET X3 == RenderCards(X2, lang, sn.val, photos, 1)
                  IN IF X3.exc # None THEN X3
                     ELSE Return(Reply(X3, Msg("choose_category", lang, "categories")),
                                 "CHOOSE_CATEGORY")

\* on_unknown: a command the conversation does not handle
on_unknown(X, tg_id, ok) ==
  LET g == get_lang(X.db, tg_id, ok)
  IN Reply([X EXCEPT !.db = g.db], Msg("ask_location_or_text", g.lang, "hint"))

\* error_handler
error_handler(X) == Reply(X, Msg("error", <<"en">>, "none"))

(* ------------------------------ events ---------------------------------- *)
Event(kind, text, contact, location, data) ==
  [kind |-> kind, text |-> text, contact |-> contact, location |-> location, data |-> data]
Command(c) == Event("command", Some(<<c>>), None, None, None)
Text(t) == Event("text", Some(t), None, None, None)
Contact(phone) == Event("contact", None, Some(phone), None, None)
Location(lat, lng) == Event("location", None, None, Some(<<Some(lat), Some(lng)>>), None)
Callback(d) == Event("callback", None, None, None, Some(d))

\* build_app: the handler ConversationHandler gives the event to, in the order
\* entry points (allow_reentry=True), the handlers of the state, fallbacks;
\* the conversation key is the user. state is None before the first entry.
EntryPoint(ev) ==
  IF ev.kind # "command" THEN None
  ELSE IF The(ev.text) \in {<<"/start">>, <<"/restart">>} THEN Some("start")
  ELSE IF The(ev.text) = <<"/settings">> THEN Some("settings_entry")
  ELSE None

StateHandler(state, ev) ==
  LET text == ev.kind = "text"
  IN CASE state = "LANG" /\ text -> Some("on_language")
       [] state = "FIRST_NAME" /\ text -> Some("on_first_name")
       [] state = "LAST_NAME" /\ text -> Some("on_last_name")
       [] state = "CONTACT" /\ (ev.kind = "contact" \/ text) -> Some("on_contact")
       [] state = "WAIT_LOCATION_OR_TEXT" /\ (ev.kind = "location" \/ text) ->
            Some("on_location_or_text")
       [] state = "CHOOSE_CATEGORY" /\ (text \/ ev.kind = "callback") ->
            Some("on_choose_category")
       [] state = "SETTINGS" /\ text -> Some("on_settings_choice")
       [] state = "EDIT_NAME" /\ text -> Some("on_edit_name")
       [] state = "EDIT_PHONE" /\ text -> Some("on_edit_phone")
       [] OTHER -> None

Fallback(ev) ==
  IF ev.kind = "command" /\ The(ev.text) = <<"/start">> THEN Some("start") ELSE None

\* main adds MessageHandler(filters.COMMAND, on_unknown) after the conversation
Dispatch(state, ev) ==
  IF EntryPoint(ev) # None THEN EntryPoint(ev)
  ELSE IF state # None /\ StateHandler(The(state), ev) # None THEN StateHandler(The(state), ev)
  ELSE IF state # None /\ Fallback(ev) # None THEN Fallback(ev)
  ELSE IF ev.kind = "command" THEN Some("on_unknown")
  ELSE None

(* ------------------------------ initial state ------------------------- *)
\* no update has arrived and no handler runs
NoUpdates == update_queue = <<>> /\ running = {} /\ arrived = 0

Init ==
  /\ DB_DRIVER \in {None} \cup {Some(d) : d \in Drivers}
  /\ DB_URL \in BOOLEAN
  /\ _IN_MEMORY_MODE = FALSE
  /\ _mem_users_by_tg = <<>>
  /\ _mem_next_id = 1
  /\ pg_table = FALSE
  /\ pg_users = <<>>
  /\ pg_next_id = 1
  /\ conversations = <<>>
  /\ user_data = [u \in Users |-> <<>>]
  /\ out = <<>>
  /\ supplied = <<>>
  /\ script = [u \in Users |-> 0]
  /\ last = [op |-> "import"]
  /\ NoUpdates

(* ---------------- the persistence API, called directly ---------------- *)
CallInit ==
  \E ok \in BOOLEAN :
    LET D == init_db(DbState, ok)
    IN /\ SetDb(D)
       /\ last' = [op |-> "init_db", calls |-> D.calls, failed |-> D.failed,
                   raised |-> D.exc # None]
       /\ UNCHANGED <<supplied, botvars, schedvars>>

CallUpsert ==
  \E tg_id \in Users, f \in ArgFields, ok \in BOOLEAN :
    LET D == upsert_user(DbState, tg_id, f, ok)
    IN /\ SetDb(D)
       /\ supplied' = Supply(supplied, tg_id, f)
       /\ last' = [op |-> "upsert_user", tg_id |-> tg_id, f |-> f, calls |-> D.calls,
                   failed |-> D.failed, raised |-> D.exc # None]
       /\ UNCHANGED <<botvars, schedvars>>

CallGet ==
  \E tg_id \in Users, ok \in BOOLEAN :
    LET r == get_user(DbState, tg_id, ok)
    IN /\ SetDb(r.db)
       /\ last' = [op |-> "get_user", tg_id |-> tg_id, row |-> r.row, calls |-> r.db.calls,
                   failed |-> r.db.failed, raised |-> r.db.exc # None]
       /\ UNCHANGED <<supplied, botvars, schedvars>>

NextDb == CallInit \/ CallUpsert \/ CallGet

SpecDb == Init /\ [][NextDb]_vars

(* ------------------------------ the bot --------------------------------- *)
\* the events the model delivers to each handler
StartEvents == {Command("/start"), Command("/restart")}
LanguageEvents == {Text(<<"[UZ]", " ", "O'zbekcha">>), Text(<<"Deutsch">>)}
FirstNameEvents == {Text(<<"Ann">>), Text(<<" ">>)}
LastNameEvents == {Text(<<"Lee">>)}
ContactEvents == {Contact(<<"+998">>), Text(<<" ", "+998">>)}
LocationEvents ==
  {Location(41, 69), Text(<<"Registon">>), Text(L_settings_button(<<"en">>))}
CategoryEvents ==
  {Text(L_back(<<"uz">>)), Callback(<<"back_root">>), Callback(<<"cat", "|", "Zoo">>)}
    \cup {Text(L_categories(l)[4]) : l \in {<<"uz">>, <<"en">>}}

StateOf(u) == IF u \in DOMAIN conversations THEN Some(conversations[u]) ELSE None

\* the events of a user, from its first one on, that run registration and one
\* search without a detour
EndToEnd == <<"start", "language choice", "first name", "last name", "shared contact",
              "location payload", "category selection">>
OffScript == Len(EndToEnd) + 1
Choice(ev) ==
  /\ out # <<>>
  /\ out[Len(out)].kb = "categories"
  /\ \E i \in 1..4 : ev = Text(L_categories(out[Len(out)].lang)[i])
FollowsScript(k, ev) ==
  CASE k = 0 -> ev = Command("/start")
    [] k = 1 -> ev \in LanguageEvents \ {Text(<<"Deutsch">>)}
    [] k = 2 -> ev.kind = "text"
    [] k = 3 -> ev.kind = "text"
    [] k = 4 -> ev.kind = "contact"
    [] k = 5 -> ev.kind = "location"
    [] k = 6 -> Choice(ev)
    [] OTHER -> FALSE
ScriptStep(k, ev) == IF FollowsScript(k, ev) THEN k + 1 ELSE OffScript

\* process_update, were an exception to end the conversation
Process_resets(name, u, ev, X) ==
  LET Y == IF X.exc # None THEN error_handler(X) ELSE X
  IN /\ SetDb(Y.db)
     /\ conversations' = IF Y.exc = None /\ Y.ret # None
                           THEN (u :> The(Y.ret)) @@ conversations
                           ELSE IF Y.exc # None
                             THEN [v \in DOMAIN conversations \ {u} |-> conversations[v]]
                           ELSE conversations
     /\ user_data' = [user_data EXCEPT ![u] = Y.ud]
     /\ out' = Y.out
     /\ supplied' = Y.sup
     /\ script' = [script EXCEPT ![u] = ScriptStep(@, ev)]
     /\ last' = [op |-> name, tg_id |-> u, kind |-> ev.kind, ev |-> ev, calls |-> Y.db.calls,
                 failed |-> Y.db.failed, geo |-> Y.geo, raised |-> Y.exc # None]
     /\ UNCHANGED schedvars

\* process_update, were user_data one dict for all conversations
Process_shares(name, u, ev, X) ==
  LET Y == IF X.exc # None THEN error_handler(X) ELSE X
  IN /\ SetDb(Y.db)
     /\ conversations' = IF Y.exc = None /\ Y.ret # None
                           THEN (u :> The(Y.ret)) @@ conversations
                           ELSE conversations
     /\ user_data' = [v \in DOMAIN user_data |-> Y.ud]
     /\ out' = Y.out
     /\ supplied' = Y.sup
     /\ script' = [script EXCEPT ![u] = ScriptStep(@, ev)]
     /\ last' = [op |-> name, tg_id |-> u, kind |-> ev.kind, ev |-> ev, calls |-> Y.db.calls,
                 failed |-> Y.db.failed, geo |-> Y.geo, raised |-> Y.exc # None]
     /\ UNCHANGED schedvars

\* Application.process_update: the handler runs to its end; the state it
\* returns becomes the conversation's state; an exception leaves the state as it
\* was and error_handler replies
Effects(name, u, ev, X) ==
  LET Y == IF X.exc # None THEN error_handler(X) ELSE X
  IN /\ SetDb(Y.db)
     /\ conversations' = IF Y.exc = None /\ Y.ret # None
                           THEN (u :> The(Y.ret)) @@ conversations
                           ELSE conversations
     /\ user_data' = [user_data EXCEPT ![u] = Y.ud]
     /\ out' = Y.out
     /\ supplied' = Y.sup
     /\ script' = [script EXCEPT ![u] = ScriptStep(@, ev)]
     /\ last' = [op |-> name, tg_id |-> u, kind |-> ev.kind, ev |-> ev, calls |-> Y.db.calls,
                 failed |-> Y.db.failed, geo |-> Y.geo, raised |-> Y.exc # None]

\* an update processed as soon as it arrives, nothing else being under way
Process(name, u, ev, X) == Effects(name, u, ev, X) /\ UNCHANGED schedvars

Handles(name, u, ev) == Dispatch(StateOf(u), ev) = Some(name)
Enter(u) == Ctx(DbState, user_data[u], supplied)

\* the outcomes a backend operation can have: only success is listed when the
\* configuration or the mode rules the backend out, since the outcome is not read
Oks == IF NoBackend(DbState) THEN {TRUE} ELSE BOOLEAN
InitOks == IF DB_DRIVER = None \/ ~DB_URL THEN {TRUE} ELSE BOOLEAN
\* what a call that is not made gives
NotCalled == [exc |-> None, val |-> None]
NoPlaces == [exc |-> None, val |-> <<>>]
\* reverse_geocode(None, None) sends latlng=None,None, which no response answers
\* with an address
NothingThere == {Seen(reverse_geocode(att, d)) : att \in Attempts, d \in {GeocodeData[1]}}
Sent(X, key) == \E i \in 1..Len(X.out) : X.out[i].key = key

Start ==
  \E u \in Users, ev \in StartEvents, ok1 \in InitOks, ok2, ok3 \in Oks :
    /\ Handles("start", u, ev)
    /\ Process("start", u, ev, start(Enter(u), u, ok1, ok2, ok3))

OnLanguage ==
  \E u \in Users, ev \in LanguageEvents, ok \in Oks :
    /\ Handles("on_language", u, ev)
    /\ Process("on_language", u, ev, on_language(Enter(u), u, The(ev.text), ok))

OnFirstName ==
  \E u \in Users, ev \in FirstNameEvents, ok1, ok2 \in Oks :
    /\ Handles("on_first_name", u, ev)
    /\ Process("on_first_name", u, ev, on_first_name(Enter(u), u, The(ev.text), ok1, ok2))

OnLastName ==
  \E u \in Users, ev \in LastNameEvents, ok1, ok2 \in Oks :
    /\ Handles("on_last_name", u, ev)
    /\ Process("on_last_name", u, ev, on_last_name(Enter(u), u, The(ev.text), ok1, ok2))

OnContact ==
  \E u \in Users, ev \in ContactEvents, ok1, ok2 \in Oks :
    /\ Handles("on_contact", u, ev)
    /\ Process("on_contact", u, ev, on_contact(Enter(u), u, ev, ok1, ok2))

OnLocationOrText ==
  \E u \in Users, ev \in LocationEvents, ok1, ok2 \in Oks :
  \E st \in IF ev.kind = "text" THEN SearchTextSeen ELSE {NotCalled} :
  \E rg \in IF ev.kind = "text" /\ (st.exc # None \/ st.val = None) THEN {NotCalled}
             ELSE IF st.val = Some(<<None, None>>) THEN NothingThere
             ELSE ReverseGeocodeSeen :
    /\ Handles("on_location_or_text", u, ev)
    /\ Process("on_location_or_text", u, ev,
               on_location_or_text(Enter(u), u, ev, ok1, ok2, st, rg))

OnChooseCategory ==
  \E u \in Users, ev \in CategoryEvents, ok \in Oks :
  \E sn \in IF Sent(on_choose_category(Enter(u), u, ev, ok, NoPlaces, <<>>), "searching")
               THEN SearchNearbySeen ELSE {NoPlaces} :
  \E photos \in [1..MaxPlaces ->
                   IF sn.exc = None /\ sn.val # <<>> THEN PhotoSeen ELSE {NotCalled}] :
    /\ Handles("on_choose_category", u, ev)
    /\ Process("on_choose_category", u, ev,
               on_choose_category(Enter(u), u, ev, ok, sn, photos))

SettingsEntry ==
  \E u \in Users, ok \in Oks :
    /\ Handles("settings_entry", u, Command("/settings"))
    /\ Process("settings_entry", u, Command("/settings"),
               settings_entry(Enter(u), u, ok))

OnUnknown ==
  \E u \in Users, ok \in Oks :
    /\ Handles("on_unknown", u, Command("/help"))
    /\ Process("on_unknown", u, Command("/help"), on_unknown(Enter(u), u, ok))

Next ==
  \/ Start
  \/ OnLanguage
  \/ OnFirstName
  \/ OnLastName
  \/ OnContact
  \/ OnLocationOrText
  \/ OnChooseCategory
  \/ SettingsEntry
  \/ OnUnknown

Spec == Init /\ [][Next]_vars

(* ------------- the handlers of the settings states, called directly ----- *)
\* settings_entry raises before it returns SETTINGS, so the dispatcher never
\* gives an update to on_settings_choice, on_edit_name or on_edit_phone.  Here
\* each of them is called with an update as ConversationHandler would call it,
\* on the profile of a registered user.
Profiles ==
  {[language |-> Some(l), first_name |-> Some(<<"Ann">>), last_name |-> Some(<<"Lee">>),
    phone |-> Some(<<"+998">>)] : l \in {<<"uz">>, <<"en">>}}
SettingsChoiceEvents ==
  {Text(L_back(<<"uz">>)), Text(L_edit_name(<<"uz">>)), Text(L_edit_phone(<<"en">>)),
   Text(<<"Hello">>)}
EditNameEvents == {Text(<<"Bob">>), Text(<<" ", "Bob", " ", " ", "Ray", " ", "Jr">>)}
EditPhoneEvents == {Text(<<"+7", " ">>)}

Registered ==
  \E tg_id \in Users, f \in Profiles, ok \in Oks :
    LET D == upsert_user(DbState, tg_id, f, ok)
    IN /\ SetDb(D)
       /\ supplied' = Supply(supplied, tg_id, f)
       /\ last' = [op |-> "upsert_user", tg_id |-> tg_id, f |-> f, calls |-> D.calls,
                   failed |-> D.failed, raised |-> D.exc # None]
       /\ UNCHANGED <<botvars, schedvars>>

OnSettingsChoice ==
  \E u \in Users, ev \in SettingsChoiceEvents, ok \in Oks :
    u \in DOMAIN supplied /\ Process("on_settings_choice", u, ev,
            on_settings_choice(Enter(u), u, The(ev.text), ok))

OnEditName ==
  \E u \in Users, ev \in EditNameEvents, ok1, ok2 \in Oks :
    u \in DOMAIN supplied /\ Process("on_edit_name", u, ev, on_edit_name(Enter(u), u, The(ev.text), ok1, ok2))

OnEditPhone ==
  \E u \in Users, ev \in EditPhoneEvents, ok1, ok2 \in Oks :
    u \in DOMAIN supplied /\ Process("on_edit_phone", u, ev, on_edit_phone(Enter(u), u, The(ev.text), ok1, ok2))

NextSettings ==
  \/ CallInit
  \/ Registered
  \/ CallGet
  \/ SettingsEntry
  \/ OnSettingsChoice
  \/ OnEditName
  \/ OnEditPhone

SpecSettings == Init /\ [][NextSettings]_vars

(* ------------- services/google_places.py, called directly --------------- *)
\* last: the attempts offered, those made (tries), and what the call gave
GeoCall(op, att, r) ==
  [op |-> op, att |-> att, tries |-> r.tries, raised |-> r.exc # None, val |-> r.val]

CallSearchNearby ==
  \E att \in Attempts, ps \in NearbyPlaces :
    /\ last' = GeoCall("search_nearby", att, search_nearby(att, ps))
    /\ UNCHANGED <<dbvars, botvars, supplied, schedvars>>

CallSearchText ==
  \E att \in Attempts, ps \in TextPlaces :
    /\ last' = GeoCall("search_text", att, search_text(att, ps))
    /\ UNCHANGED <<dbvars, botvars, supplied, schedvars>>

CallReverseGeocode ==
  \E att \in Attempts, k \in DOMAIN GeocodeData :
    /\ last' = GeoCall("reverse_geocode", att, reverse_geocode(att, GeocodeData[k]))
    /\ UNCHANGED <<dbvars, botvars, supplied, schedvars>>

CallGetPhotoUrl ==
  \E att \in PhotoAttempts :
    /\ last' = GeoCall("get_photo_url", att, get_photo_url(att))
    /\ UNCHANGED <<dbvars, botvars, supplied, schedvars>>

NextGeo == CallSearchNearby \/ CallSearchText \/ CallReverseGeocode \/ CallGetPhotoUrl

SpecGeo == Init /\ [][NextGeo]_vars

(* ------------- _fmt_distance_km, applied to a distance ------------------ *)
\* the distance of a place, in whole metres
InitFmt ==
  /\ DB_DRIVER = None
  /\ DB_URL = FALSE
  /\ _IN_MEMORY_MODE = FALSE
  /\ _mem_users_by_tg = <<>>
  /\ _mem_next_id = 1
  /\ pg_table = FALSE
  /\ pg_users = <<>>
  /\ pg_next_id = 1
  /\ conversations = <<>>
  /\ user_data = [u \in Users |-> <<>>]
  /\ out = <<>>
  /\ supplied = <<>>
  /\ script = [u \in Users |-> 0]
  /\ \E m \in 0..MaxMetres : last = [op |-> "distance", m |-> m]
  /\ NoUpdates

FormatDistance ==
  \E up \in BOOLEAN :
    /\ last.op = "distance"
    /\ last' = [op |-> "_fmt_distance_km", m |-> last.m,
                text |-> _fmt_distance_km(last.m, up)]
    /\ UNCHANGED <<dbvars, botvars, supplied, schedvars>>

SpecFmt == InitFmt /\ [][FormatDistance]_vars

\* the identity has completed registration: each of the four attributes has been
\* given to upsert_user with a value that is not None
Completed(u) ==
  /\ u \in DOMAIN supplied
  /\ \A n \in FieldNames : supplied[u][n] # None

(* ------------------------- two conversations ---------------------------- *)
\* two users talk to the bot, their events arriving in any order; each handler
\* runs to its end before the next update is taken (Application.builder() is
\* built without concurrent_updates)
Identities == 1..(MaxUsers + 1)

InitPair ==
  /\ DB_DRIVER \in {None} \cup {Some(d) : d \in Drivers}
  /\ DB_URL \in BOOLEAN
  /\ _IN_MEMORY_MODE = FALSE
  /\ _mem_users_by_tg = <<>>
  /\ _mem_next_id = 1
  /\ pg_table = FALSE
  /\ pg_users = <<>>
  /\ pg_next_id = 1
  /\ conversations = <<>>
  /\ user_data = [u \in Identities |-> <<>>]
  /\ out = <<>>
  /\ supplied = <<>>
  /\ script = [u \in Identities |-> 0]
  /\ last = [op |-> "import"]
  /\ NoUpdates

PairLocationEvents == {Location(41, 69), Location(39, 66)}
PairCategoryEvents == {Callback(<<"back_root">>)}
PairProfiles == {f \in Profiles : f.language = Some(<<"en">>)}

\* a user who completed registration earlier: upsert_user with the four
\* attributes as the first call for the identity
PairRegistered ==
  \E tg_id \in Identities, f \in PairProfiles, ok \in Oks :
    LET D == upsert_user(DbState, tg_id, f, ok)
    IN /\ tg_id \notin DOMAIN supplied
       /\ SetDb(D)
       /\ supplied' = Supply(supplied, tg_id, f)
       /\ last' = [op |-> "upsert_user", tg_id |-> tg_id, f |-> f, calls |-> D.calls,
                   failed |-> D.failed, raised |-> D.exc # None]
       /\ UNCHANGED <<botvars, schedvars>>

PairStart ==
  \E u \in Identities, ok1 \in InitOks, ok2, ok3 \in Oks :
    /\ Handles("start", u, Command("/start"))
    /\ Process("start", u, Command("/start"), start(Enter(u), u, ok1, ok2, ok3))

PairOnLocationOrText ==
  \E u \in Identities, ev \in PairLocationEvents, ok1, ok2 \in Oks :
  \E st \in IF ev.kind = "text" THEN SearchTextSeen ELSE {NotCalled} :
  \E rg \in IF ev.kind = "text" /\ (st.exc # None \/ st.val = None) THEN {NotCalled}
             ELSE IF st.val = Some(<<None, None>>) THEN NothingThere
             ELSE ReverseGeocodeSeen :
    /\ Handles("on_location_or_text", u, ev)
    /\ Process("on_location_or_text", u, ev,
               on_location_or_text(Enter(u), u, ev, ok1, ok2, st, rg))

PairOnChooseCategory ==
  \E u \in Identities, ev \in PairCategoryEvents, ok \in Oks :
  \E sn \in IF Sent(on_choose_category(Enter(u), u, ev, ok, NoPlaces, <<>>), "searching")
               THEN SearchNearbySeen ELSE {NoPlaces} :
  \E photos \in [1..MaxPlaces ->
                   IF sn.exc = None /\ sn.val # <<>> THEN PhotoSeen ELSE {NotCalled}] :
    /\ Handles("on_choose_category", u, ev)
    /\ Process("on_choose_category", u, ev,
               on_choose_category(Enter(u), u, ev, ok, sn, photos))

NextPair ==
  \/ CallInit
  \/ PairRegistered
  \/ PairStart
  \/ PairOnLocationOrText
  \/ PairOnChooseCategory

SpecPair == InitPair /\ [][NextPair]_vars

(* --------------- reverse_geocode, applied to a response ----------------- *)
\* the types of a result, the plus codes of a response, and the responses: the
\* i-th result's formatted_address names its position
CandidateTypes ==
  {{}, {"street_address"}, {"sublocality"}, {"neighborhood"}, {"route"}, {"locality"},
   {"administrative_area_level_2"}, {"route", "locality"}}
PlusCodes ==
  [compound_code : {None, Some(<<"87M2+X4", " ", "Samarqand">>)},
   global_code : {None, Some(<<"8J87M2+X4">>)}]
Address(i) == Some(<<"address", " ", "of", " ", "result", " ", ToString(i)>>)
GeocodeResponses ==
  UNION {{[results |-> [i \in 1..n |-> [types |-> ts[i], formatted_address |-> Address(i)]],
           plus_code |-> pc] : ts \in [1..n -> CandidateTypes], pc \in PlusCodes}
         : n \in 0..MaxCandidates}
\* the first request is answered, refused, or fails and is answered at the retry
GeocodeAttempts ==
  {att \in Attempts : \A i \in 2..(MAX_TRIES + 1) : att[i] = "ok"}

InitGeocode ==
  /\ DB_DRIVER = None
  /\ DB_URL = FALSE
  /\ _IN_MEMORY_MODE = FALSE
  /\ _mem_users_by_tg = <<>>
  /\ _mem_next_id = 1
  /\ pg_table = FALSE
  /\ pg_users = <<>>
  /\ pg_next_id = 1
  /\ conversations = <<>>
  /\ user_data = [u \in Users |-> <<>>]
  /\ out = <<>>
  /\ supplied = <<>>
  /\ script = [u \in Users |-> 0]
  /\ \E data \in GeocodeResponses : last = [op |-> "response", data |-> data]
  /\ NoUpdates

PickAddress ==
  \E att \in GeocodeAttempts :
    LET r == reverse_geocode(att, last.data)
    IN /\ last.op = "response"
       /\ last' = [op |-> "reverse_geocode", data |-> last.data, att |-> att,
                   tries |-> r.tries, raised |-> r.exc # None, val |-> r.val]
       /\ UNCHANGED <<dbvars, botvars, supplied, schedvars>>

SpecGeocode == InitGeocode /\ [][PickAddress]_vars

(* ------------- a category selection and the search it sends ------------ *)
\* the language of the user, the selection (a text or a callback token) and the
\* query point
SelectionLangs == Langs
Selections ==
  {Text(L_categories(l)[i]) : l \in Langs, i \in 1..4}
    \cup {Text(<<"Museum">>), Text(<<"Restaurant">>)}
    \cup {Callback(<<"cat", "|">> \o k) : k \in {ENG_CATEGORIES[i] : i \in 1..4}}
    \cup {Callback(<<"cat", "|", "Zoo">>)}
QueryPoints == {<<41, 69>>, <<39, 66>>}

InitCategory ==
  /\ DB_DRIVER = None
  /\ DB_URL = FALSE
  /\ _IN_MEMORY_MODE = FALSE
  /\ _mem_users_by_tg = <<>>
  /\ _mem_next_id = 1
  /\ pg_table = FALSE
  /\ pg_users = <<>>
  /\ pg_next_id = 1
  /\ conversations = <<>>
  /\ user_data = [u \in Users |-> <<>>]
  /\ out = <<>>
  /\ supplied = <<>>
  /\ script = [u \in Users |-> 0]
  /\ \E lang \in SelectionLangs, ev \in Selections, qp \in QueryPoints :
        last = [op |-> "selection", lang |-> lang, ev |-> ev, qp |-> qp]
  /\ NoUpdates

\* on_choose_category from "items = _category_items_for_lang(lang)" to the body
\* search_nearby posts; body is None when the handler returns before the search
SelectCategory ==
  LET ev == last.ev
      text == Strip(IF IsCallback(ev) THEN The(ev.data) ELSE The(ev.text))
      category_key == IF IsCallback(ev) /\ StartsWithCat(text)
                        THEN Some(SubSeq(text, 3, Len(text)))
                        ELSE LabelToKey(last.lang, text)
  IN /\ last.op = "selection"
     /\ last' = [op |-> "on_choose_category", lang |-> last.lang, ev |-> ev,
                 category_key |-> category_key,
                 body |-> IF category_key = None THEN None
                          ELSE Some(NearbyBody(last.qp[1], last.qp[2], The(category_key)))]
     /\ UNCHANGED <<dbvars, botvars, supplied, schedvars>>

SpecCategory == InitCategory /\ [][SelectCategory]_vars

(* ------------- the persistence API, called for two identities ---------- *)
\* handlers call upsert_user and get_user as plain functions, without an await
\* inside or between them, so the calls of two conversations interleave call by
\* call
StoreFields ==
  {NoFields, [NoFields EXCEPT !.first_name = Some(<<"Ann">>)],
   [NoFields EXCEPT !.language = Some(<<"uz">>), !.last_name = Some(<<"Lee">>)]}

StoreUpsert ==
  \E tg_id \in Identities, f \in StoreFields, ok \in Oks :
    LET D == upsert_user(DbState, tg_id, f, ok)
    IN /\ SetDb(D)
       /\ supplied' = Supply(supplied, tg_id, f)
       /\ last' = [op |-> "upsert_user", tg_id |-> tg_id, f |-> f, calls |-> D.calls,
                   failed |-> D.failed, raised |-> D.exc # None]
       /\ UNCHANGED <<botvars, schedvars>>

StoreGet ==
  \E tg_id \in Identities, ok \in Oks :
    LET r == get_user(DbState, tg_id, ok)
    IN /\ SetDb(r.db)
       /\ last' = [op |-> "get_user", tg_id |-> tg_id, row |-> r.row, calls |-> r.db.calls,
                   failed |-> r.db.failed, raised |-> r.db.exc # None]
       /\ UNCHANGED <<supplied, botvars, schedvars>>

NextStore == CallInit \/ StoreUpsert \/ StoreGet

SpecStore == InitPair /\ [][NextStore]_vars

(* --------------------------- the update queue --------------------------- *)
\* Updates arrive in update_queue while handlers run.  build_app builds the
\* Application without concurrent_updates, so the update fetcher awaits
\* process_update(update) before it takes the next update from the queue.  A
\* handler that awaits asyncio.to_thread(...) is suspended between Take and
\* Finish; the outcome of the offloaded call is drawn when it finishes.
SchedEvents == {Command("/start"), Location(41, 69)}

Arrive ==
  \E u \in Identities, ev \in SchedEvents :
    /\ arrived < MaxUpdates
    /\ update_queue' = Append(update_queue, [u |-> u, ev |-> ev, n |-> arrived + 1])
    /\ arrived' = arrived + 1
    /\ UNCHANGED <<dbvars, botvars, supplied, last, running>>

\* the update fetcher takes the next update; the conversation's state selects
\* the handler, and an update no handler accepts is dropped
Take ==
  /\ running = {}
  /\ update_queue # <<>>
  /\ LET upd == Head(update_queue)
         name == Dispatch(StateOf(upd.u), upd.ev)
     IN running' = IF name = None THEN {}
                   ELSE {[u |-> upd.u, ev |-> upd.ev, n |-> upd.n, name |-> The(name)]}
  /\ update_queue' = Tail(update_queue)
  /\ UNCHANGED <<dbvars, botvars, supplied, last, arrived>>

\* a handler that runs reaches its end
Finish ==
  \E r \in running :
  \E ok1 \in IF r.name = "start" THEN InitOks ELSE {TRUE}, ok2, ok3 \in Oks :
  \E rg \in IF r.name = "start" THEN {NotCalled} ELSE ReverseGeocodeSeen :
    /\ Effects(r.name, r.u, r.ev,
               IF r.name = "start" THEN start(Enter(r.u), r.u, ok1, ok2, ok3)
               ELSE on_location_or_text(Enter(r.u), r.u, r.ev, ok2, ok3, NotCalled, rg))
    /\ running' = running \ {r}
    /\ UNCHANGED <<update_queue, arrived>>

NextSched ==
  \/ PairRegistered
  \/ Arrive
  \/ Take
  \/ Finish

SpecSched == InitPair /\ [][NextSched]_vars

(* ------------------------- claims on the persistence API --------------- *)
\* the row a get_user that meets no failure returns for tg_id
Visible(tg_id) ==
  IF NoBackend(DbState) THEN _memory_get(DbState, tg_id)
  ELSE IF tg_id \in DOMAIN pg_users THEN Some(pg_users[tg_id]) ELSE None

IsCall(l, ops) == l.op \in ops

\* C1: after any sequence of upsert_user calls on an identity, get_user returns a
\* row whose language, first_name, last_name and phone are each the last non-None
\* value supplied (None only if none was), whatever happened to the Persistence
\* Mode in between; and no upsert_user turns a visible non-None field into None.
C1_GetReturnsLastSupplied ==
  (last.op = "get_user" /\ last.tg_id \in DOMAIN supplied) =>
     /\ last.row # None
     /\ \A n \in FieldNames : The(last.row)[n] = supplied[last.tg_id][n]

C1_NoFieldRegresses ==
  last'.op = "upsert_user" =>
     \A tg_id \in Users, n \in FieldNames :
        (Visible(tg_id) # None /\ The(Visible(tg_id))[n] # None) =>
           (Visible(tg_id)' # None /\ The(Visible(tg_id)')[n] # None)

C1_LastNonNullWins == [](C1_GetReturnsLastSupplied) /\ [][C1_NoFieldRegresses]_vars

\* C2: Persistence Mode is monotonic: an operation that fails against the backend
\* leaves the mode Memory-fallback, and no operation, successful or not, sets a
\* Memory-fallback mode back to Primary-backed.
C2_ModeMonotonic ==
  [][(last'.failed \/ _IN_MEMORY_MODE) => _IN_MEMORY_MODE']_vars

\* an operation that met no failure has run after the switch to Memory-fallback
C2_Witness ==
  /\ _IN_MEMORY_MODE
  /\ pg_users # <<>>
  /\ IsCall(last, {"init_db", "upsert_user", "get_user"})
  /\ ~last.failed

\* C3: once the mode is Memory-fallback no operation connects to the backend:
\* an operation that starts in Memory-fallback attempts no connection.
C3_NoBackendAfterFallback ==
  [][_IN_MEMORY_MODE => last'.calls = 0]_vars

\* C4: an upsert_user or get_user whose backend operation fails in Primary-backed
\* mode switches the mode to Memory-fallback, applies the same operation to the
\* in-process store and returns normally; the fields the failed upsert supplied
\* are what the next get_user returns.
C4_UpsertRetried ==
  LET tg_id == last'.tg_id
      f == last'.f
      old == IF tg_id \in DOMAIN _mem_users_by_tg
               THEN _mem_users_by_tg[tg_id] ELSE NewRow(_mem_next_id, tg_id)
  IN /\ tg_id \in DOMAIN _mem_users_by_tg'
     /\ \A n \in FieldNames :
          _mem_users_by_tg'[tg_id][n] = Coalesce(f[n], old[n])
     /\ \A u \in DOMAIN _mem_users_by_tg \ {tg_id} :
          _mem_users_by_tg'[u] = _mem_users_by_tg[u]
     /\ \A ok \in BOOLEAN, n \in FieldNames :
          LET r == get_user(DbState', tg_id, ok)
          IN f[n] # None => (r.row # None /\ The(r.row)[n] = f[n])

C4_GetRetried ==
  /\ last'.row = _memory_get(DbState, last'.tg_id)
  /\ _mem_users_by_tg' = _mem_users_by_tg

C4_FailoverInSameCall ==
  [][(~_IN_MEMORY_MODE /\ IsCall(last', {"upsert_user", "get_user"}) /\ last'.failed) =>
        /\ _IN_MEMORY_MODE'
        /\ ~last'.raised
        /\ last'.op = "upsert_user" => C4_UpsertRetried
        /\ last'.op = "get_user" => C4_GetRetried]_vars

\* an upsert that supplied a first name has failed over after rows were written
\* to PostgreSQL
C4_Witness ==
  /\ last.op = "upsert_user"
  /\ last.failed
  /\ last.f.first_name # None
  /\ pg_users # <<>>
  /\ _IN_MEMORY_MODE

\* C5: init_db never raises; it changes no row of either store and no id counter;
\* a failed (or impossible) bootstrap only sets the mode to Memory-fallback, a
\* successful one leaves the mode as it was and the table in place.
C5_InitOnlyFlipsMode ==
  [][last'.op = "init_db" =>
        /\ ~last'.raised
        /\ _mem_users_by_tg' = _mem_users_by_tg
        /\ _mem_next_id' = _mem_next_id
        /\ pg_users' = pg_users
        /\ pg_next_id' = pg_next_id
        /\ last'.failed => (_IN_MEMORY_MODE' /\ pg_table' = pg_table)
        /\ ~last'.failed => (_IN_MEMORY_MODE' = _IN_MEMORY_MODE /\ pg_table')]_vars

\* init_db has failed while both stores held a row
C5_Witness ==
  /\ last.op = "init_db"
  /\ last.failed
  /\ pg_users # <<>>
  /\ _mem_users_by_tg # <<>>

(* ------------------------- claims on the dialogue ----------------------- *)
\* field n of an Optional row, None for a missing row
FieldOf(row, n) == IF row = None THEN None ELSE The(row)[n]

Shows(o, key) == \E i \in 1..Len(o) : o[i].key = key

\* C6: /start and /restart are given to start in each of the nine states (and
\* before the first entry), and start, whatever happened to the Persistence Mode
\* before, moves the conversation to WAIT_LOCATION_OR_TEXT when the identity has
\* completed registration and to LANG otherwise.
C6_StartAccepted ==
  \A c \in StartEvents :
    /\ Dispatch(None, c) = Some("start")
    /\ \A s \in States : Dispatch(Some(s), c) = Some("start")

C6_StartRoutes ==
  last'.op = "start" =>
     /\ ~last'.raised
     /\ conversations'[last'.tg_id] =
          IF Completed(last'.tg_id) THEN "WAIT_LOCATION_OR_TEXT" ELSE "LANG"

C6_StartRoutesByRegistration == [](C6_StartAccepted) /\ [][C6_StartRoutes]_vars

\* C7: start treats the identity as registered (moves to WAIT_LOCATION_OR_TEXT)
\* exactly when the stored language, first_name, last_name and phone are all
\* non-None, an empty string counting as a value.
C7_RegisteredIffAllNonNull ==
  [][\A u \in Users :
        (last'.op = "start" /\ last'.tg_id = u) =>
           ((conversations'[u] = "WAIT_LOCATION_OR_TEXT")
              <=> (Visible(u)' # None
                     /\ \A n \in FieldNames : The(Visible(u)')[n] # None))]_vars

\* C8: each registration handler moves its state to the next one of LANG,
\* FIRST_NAME, LAST_NAME, CONTACT, WAIT_LOCATION_OR_TEXT, gives upsert_user
\* exactly its own attribute, and leaves the other three stored attributes as
\* they were; when on_contact returns all four attributes have been supplied.
RegistrationSteps ==
  [on_language |-> <<"LANG", "language", "FIRST_NAME">>,
   on_first_name |-> <<"FIRST_NAME", "first_name", "LAST_NAME">>,
   on_last_name |-> <<"LAST_NAME", "last_name", "CONTACT">>,
   on_contact |-> <<"CONTACT", "phone", "WAIT_LOCATION_OR_TEXT">>]

C8_StepAdvances ==
  \A u \in Users :
  (last'.op \in DOMAIN RegistrationSteps /\ last'.tg_id = u) =>
     LET step == RegistrationSteps[last'.op]
     IN /\ conversations[u] = step[1]
        /\ conversations'[u] = step[3]
        /\ supplied'[u][step[2]] # None
        /\ FieldOf(Visible(u)', step[2]) = supplied'[u][step[2]]
        /\ \A n \in FieldNames \ {step[2]} :
              /\ supplied'[u][n] = supplied[u][n]
              /\ FieldOf(Visible(u)', n) = FieldOf(Visible(u), n)
        /\ last'.op = "on_contact" => Completed(u)'

C8_RegistrationChain == [][C8_StepAdvances]_vars

\* C9: a category selection that runs the nearby search (the category is
\* recognised and a query point is set) leaves the conversation in
\* CHOOSE_CATEGORY; when the search returns no place the last message is
\* no_results with the category keyboard, and when it returns places the last
\* message is the category prompt, after the cards.
C9_SelectionStays ==
  (last'.op = "on_choose_category" /\ last'.geo # <<>>) =>
     LET u == last'.tg_id
         search == last'.geo[1]
         final == out'[Len(out')]
     IN /\ search.op = "search_nearby"
        /\ user_data[u]["query_point"] # None
        /\ conversations[u] = "CHOOSE_CATEGORY"
        /\ conversations'[u] = "CHOOSE_CATEGORY"
        /\ (~search.raised /\ search.n = 0) =>
              final = Msg("no_results", final.lang, "categories")
        /\ (~search.raised /\ search.n > 0) =>
              /\ final = Msg("choose_category", final.lang, "categories")
              /\ \E i \in 1..(Len(out') - 1) : out'[i].kb = "card"

C9_CategorySelectionStays == [][C9_SelectionStays]_vars

\* C10: while a fresh identity's events are, in order, /start, a language button,
\* a first name, a last name, a shared contact, a location and a category label,
\* the replies are, in order, lang_prompt, ask_name, ask_surname, ask_contact,
\* you_are_here then a message with the category keyboard, and last either
\* no_results with the category keyboard or a card followed by a message with
\* the category keyboard; the conversation then is in CHOOSE_CATEGORY.
C10_Reply(k, u) ==
  CASE k = 1 -> Shows(out', "lang_prompt")
    [] k = 2 -> Shows(out', "ask_name")
    [] k = 3 -> Shows(out', "ask_surname")
    [] k = 4 -> Shows(out', "ask_contact")
    [] k = 5 -> conversations'[u] = "WAIT_LOCATION_OR_TEXT"
    [] k = 6 -> \E i, j \in 1..Len(out') :
                  /\ i < j
                  /\ out'[i].key = "you_are_here"
                  /\ out'[j].kb = "categories"
    [] k = 7 -> /\ conversations'[u] = "CHOOSE_CATEGORY"
                /\ \/ \E i, j \in 1..Len(out') :
                        /\ i < j
                        /\ out'[i].kb = "card"
                        /\ out'[j].kb = "categories"
                   \/ \E i \in 1..Len(out') :
                        out'[i] = Msg("no_results", out'[i].lang, "categories")
    [] OTHER -> TRUE

C10_EndToEnd ==
  [][\A u \in Users : script'[u] # script[u] => C10_Reply(script'[u], u)]_vars

(* --------------------- claims on the settings handlers ------------------ *)
\* C11: on_edit_phone stores the stripped text as the phone, replies "saved" and
\* returns SETTINGS; the row get_user returns afterwards has the new phone, and
\* its language, first_name and last_name are what they were before.
C11_EditPhoneStep ==
  \A u \in Users :
    (last'.op = "on_edit_phone" /\ last'.tg_id = u) =>
       /\ ~last'.raised
       /\ Shows(out', "saved")
       /\ StateOf(u)' = Some("SETTINGS")
       /\ FieldOf(Visible(u)', "phone") = Some(Strip(The(last'.ev.text)))
       /\ \A n \in FieldNames \ {"phone"} :
             FieldOf(Visible(u)', n) = FieldOf(Visible(u), n)

C11_EditPhoneOnlyPhone == [][C11_EditPhoneStep]_vars

(* ------------------------- claims on the dialogue, continued ------------ *)
\* the updates the model sends
Events ==
  StartEvents \cup LanguageEvents \cup FirstNameEvents \cup LastNameEvents
    \cup ContactEvents \cup LocationEvents \cup CategoryEvents
    \cup {Command("/settings"), Command("/help")}

Apologies(o) == {i \in 1..Len(o) : o[i].key = "error"}

\* C12: when a handler raises, the conversation's state is what it was before the
\* update, exactly one apology is sent, and every next update is given to the
\* handler it would have been given to before.
C12_RaiseStep ==
  \A u \in Users :
    (last'.raised /\ last'.tg_id = u) =>
       /\ conversations' = conversations
       /\ Cardinality(Apologies(out')) = 1
       /\ \A ev \in Events : Dispatch(StateOf(u)', ev) = Dispatch(StateOf(u), ev)

C12_ExceptionKeepsState == [][C12_RaiseStep]_vars

\* on_choose_category has raised after it sent "searching", in CHOOSE_CATEGORY
C12_Witness ==
  /\ last.op = "on_choose_category"
  /\ last.raised
  /\ Len(out) = 2
  /\ conversations[last.tg_id] = "CHOOSE_CATEGORY"

(* --------------------- claims on services/google_places.py -------------- *)
\* the attempts a call made
Made(l) == 1..l.tries
\* the operation failed for good: its last attempt met a network failure or a
\* non-success status
FailedForGood(l) == l.att[l.tries] \in {"neterr", "status"}

\* C13: a call of search_text, search_nearby, reverse_geocode or get_photo_url
\* makes at most 3 HTTP attempts, makes another attempt only after one that met a
\* network failure, and ends with the third attempt.
C13_CallStep ==
  /\ last'.tries <= 3
  /\ \A i \in Made(last') : i < last'.tries => last'.att[i] = "neterr"
  /\ (\A i \in 1..3 : last'.att[i] = "neterr") => (last'.tries = 3 /\ last'.raised)

C13_RetryOnlyAfterNetworkFailure == [][C13_CallStep]_vars

\* C14: an operation that fails for good returns the empty result (search_text
\* None, search_nearby the empty list, reverse_geocode and get_photo_url None)
\* and no call raises.
C14_CallStep ==
  /\ ~last'.raised
  /\ FailedForGood(last') =>
       last'.val = IF last'.op = "search_nearby" THEN <<>> ELSE None

C14_FailureIsEmptyResult == [][C14_CallStep]_vars

(* --------------------- claims on _fmt_distance_km ----------------------- *)
Formatted(l) == l.op = "_fmt_distance_km"

\* the text shows metres m with no decimal
ShowsMetres(t, m) == t = Distance(m, None, "m")
\* the text shows kilometres with exactly one decimal, the tenth nearest to m
ShowsOneDecimal(t, m) ==
  /\ t.unit = "km"
  /\ t.frac # None
  /\ LET shown == 100 * (10 * t.whole + The(t.frac))
     IN shown - m <= 50 /\ m - shown <= 50
\* the text shows whole kilometres, the integer nearest to m
ShowsWholeKm(t, m) ==
  /\ t.unit = "km"
  /\ t.frac = None
  /\ 1000 * t.whole - m <= 500
  /\ m - 1000 * t.whole <= 500

C15_Examples(l) ==
  /\ l.m = 500 => l.text = Distance(500, None, "m")
  /\ l.m = 999 => l.text = Distance(999, None, "m")
  /\ l.m = 1000 => l.text = Distance(1, Some(0), "km")
  /\ l.m = 2345 => l.text = Distance(2, Some(3), "km")
  /\ l.m = 15600 => l.text = Distance(16, None, "km")

C15_Ranges(l) ==
  /\ l.m < 1000 => ShowsMetres(l.text, l.m)
  /\ (1000 <= l.m /\ l.m < 10000) => ShowsOneDecimal(l.text, l.m)
  /\ l.m >= 10000 => ShowsWholeKm(l.text, l.m)

\* C15 as stated: metres below 1000 m, one decimal from 1000 m to below 10000 m,
\* whole kilometres from 10000 m on, the five examples, and no one-decimal text
\* showing 10.0 or more.
C15_NeverTenPointZero ==
  Formatted(last) =>
     /\ C15_Ranges(last)
     /\ C15_Examples(last)
     /\ last.text.frac # None => last.text.whole < 10

\* C15, amended: the same ranges and examples; a one-decimal text shows 10.0 at
\* most, and shows 10.0 only for a distance above 9950 m.
C15_DistanceFormat ==
  Formatted(last) =>
     /\ C15_Ranges(last)
     /\ C15_Examples(last)
     /\ last.text.frac # None =>
          /\ 10 * last.text.whole + The(last.text.frac) <= 100
          /\ last.text.whole = 10 => last.m >= 9950

\* 9951 m has been formatted as "10.0 km"
C15_Witness ==
  /\ Formatted(last)
  /\ last.m = 9951
  /\ last.text = Distance(10, Some(0), "km")

(* ------------------ claims on the search conversation ------------------- *)
\* the language the user chose last, "en" before any choice
UserLang(u) ==
  IF u \in DOMAIN supplied /\ Truthy(supplied[u]["language"])
    THEN The(supplied[u]["language"]) ELSE <<"en">>

\* the query point of a conversation: None while there is none
QueryPoint(ud) == IF "query_point" \in DOMAIN ud THEN ud["query_point"] ELSE None
\* no query point is set: on_choose_category reads a missing one as (None, None)
NoQueryPoint(ud) == QueryPoint(ud) = None \/ The(QueryPoint(ud))[1] = None

SettingsTap(u, ev) == ev.kind = "text" /\ Strip(The(ev.text)) = L_settings_button(UserLang(u))

\* C16: in WAIT_LOCATION_OR_TEXT a location payload makes its coordinate pair the
\* query point and moves to CHOOSE_CATEGORY after a you_are_here confirmation
\* and a message with the category keyboard; a tap on the settings button moves
\* to SETTINGS and leaves the query point as it was; any other text either sends
\* no_results, leaves the query point unset and stays, or stores a coordinate
\* pair and moves to CHOOSE_CATEGORY.
C16_LocationOrQueryStep ==
  \A u \in Users :
    (last'.op = "on_location_or_text" /\ last'.tg_id = u) =>
       LET ev == last'.ev
       IN /\ StateOf(u) = Some("WAIT_LOCATION_OR_TEXT")
          /\ ev.kind = "location" =>
               /\ QueryPoint(user_data'[u]) = ev.location
               /\ Shows(out', "you_are_here")
               /\ out'[Len(out')].kb = "categories"
               /\ StateOf(u)' = Some("CHOOSE_CATEGORY")
          /\ SettingsTap(u, ev) =>
               /\ StateOf(u)' = Some("SETTINGS")
               /\ QueryPoint(user_data'[u]) = QueryPoint(user_data[u])
          /\ (ev.kind = "text" /\ ~SettingsTap(u, ev)) =>
               \/ /\ Shows(out', "no_results")
                  /\ NoQueryPoint(user_data'[u])
                  /\ StateOf(u)' = Some("WAIT_LOCATION_OR_TEXT")
               \/ /\ ~NoQueryPoint(user_data'[u])
                  /\ StateOf(u)' = Some("CHOOSE_CATEGORY")

C16_AwaitingLocationOrQuery == [][C16_LocationOrQueryStep]_vars

BackTap(u, ev) ==
  \/ ev.kind = "text" /\ Strip(The(ev.text)) = L_back(UserLang(u))
  \/ ev.kind = "callback" /\ Strip(The(ev.data)) = <<"back_root">>

\* a category selection: a label of the user's language or a cat|key callback
CategoryTap(u, ev) ==
  \/ ev.kind = "text" /\ LabelToKey(UserLang(u), Strip(The(ev.text))) # None
  \/ ev.kind = "callback" /\ StartsWithCat(Strip(The(ev.data)))

\* C17: in CHOOSE_CATEGORY a back tap (the back label of the user's language or
\* the back_root callback) moves to WAIT_LOCATION_OR_TEXT; a category selection
\* without a query point sends ask_location_or_text, calls no search_nearby and
\* moves to WAIT_LOCATION_OR_TEXT; text that is neither the back label nor a
\* category label of the user's language sends nothing, calls nothing and
\* leaves the state as it was.
C17_CategoryStep ==
  \A u \in Users :
    (last'.op = "on_choose_category" /\ last'.tg_id = u) =>
       LET ev == last'.ev
       IN /\ StateOf(u) = Some("CHOOSE_CATEGORY")
          /\ BackTap(u, ev) => StateOf(u)' = Some("WAIT_LOCATION_OR_TEXT")
          /\ (~BackTap(u, ev) /\ CategoryTap(u, ev) /\ NoQueryPoint(user_data[u])) =>
               /\ Shows(out', "ask_location_or_text")
               /\ last'.geo = <<>>
               /\ StateOf(u)' = Some("WAIT_LOCATION_OR_TEXT")
          /\ (ev.kind = "text" /\ ~BackTap(u, ev) /\ ~CategoryTap(u, ev)) =>
               /\ out' = <<>>
               /\ last'.geo = <<>>
               /\ StateOf(u)' = StateOf(u)

C17_CategorySelection == [][C17_CategoryStep]_vars

(* ---------------------- claims on the settings menu --------------------- *)
\* C18: settings_entry (the /settings command in any state, the settings button
\* in WAIT_LOCATION_OR_TEXT) leaves the conversation in SETTINGS; in SETTINGS
\* the back label moves to WAIT_LOCATION_OR_TEXT, the edit-name label to
\* EDIT_NAME, the edit-phone label to EDIT_PHONE, and any other text sends the
\* settings menu again and stays in SETTINGS.
C18_SettingsStep ==
  \A u \in Users :
    /\ (last'.tg_id = u /\ last'.op = "settings_entry") =>
          StateOf(u)' = Some("SETTINGS")
    /\ (last'.tg_id = u /\ last'.op = "on_location_or_text" /\ SettingsTap(u, last'.ev)) =>
          StateOf(u)' = Some("SETTINGS")
    /\ (last'.tg_id = u /\ last'.op = "on_settings_choice") =>
          LET choice == Strip(The(last'.ev.text))
              lang == UserLang(u)
          IN /\ StateOf(u) = Some("SETTINGS")
             /\ StateOf(u)' =
                  Some(IF choice = L_back(lang) THEN "WAIT_LOCATION_OR_TEXT"
                       ELSE IF choice = L_edit_name(lang) THEN "EDIT_NAME"
                       ELSE IF choice = L_edit_phone(lang) THEN "EDIT_PHONE"
                       ELSE "SETTINGS")
             /\ choice \notin {L_back(lang), L_edit_name(lang), L_edit_phone(lang)} =>
                  Shows(out', "settings_title")

C18_SettingsReachable == [][C18_SettingsStep]_vars

\* C19: on_edit_name splits the text on whitespace; with two tokens or more the
\* first becomes the first name and the others, joined by single spaces, the
\* last name; with one token the first name is overwritten and the last name
\* kept; language and phone are kept; "saved" is sent and the conversation moves
\* to SETTINGS.
C19_EditNameStep ==
  \A u \in Users :
    (last'.op = "on_edit_name" /\ last'.tg_id = u) =>
       LET parts == Split(Strip(The(last'.ev.text)))
       IN /\ FieldOf(Visible(u)', "first_name") = Some(parts[1])
          /\ FieldOf(Visible(u)', "last_name") =
               IF Len(parts) >= 2 THEN Some(Join(Tail(parts)))
               ELSE FieldOf(Visible(u), "last_name")
          /\ \A n \in {"language", "phone"} :
               FieldOf(Visible(u)', n) = FieldOf(Visible(u), n)
          /\ ~last'.raised
          /\ Shows(out', "saved")
          /\ StateOf(u)' = Some("SETTINGS")

C19_EditNameSplits == [][C19_EditNameStep]_vars

(* ---------------------- claims on the query point ----------------------- *)
\* C20: after start (the /start or /restart command) the conversation has no
\* query point; a location submitted in WAIT_LOCATION_OR_TEXT replaces the query
\* point; after a text query answered with no_results the conversation has no
\* query point.
C20_QueryPointStep ==
  \A u \in Users :
    /\ (last'.tg_id = u /\ last'.op = "start") => NoQueryPoint(user_data'[u])
    /\ (last'.tg_id = u /\ last'.op = "on_location_or_text") =>
          /\ last'.ev.kind = "location" => QueryPoint(user_data'[u]) = last'.ev.location
          /\ (last'.ev.kind = "text" /\ Shows(out', "no_results")) =>
                NoQueryPoint(user_data'[u])

C20_QueryPointReset == [][C20_QueryPointStep]_vars

(* ---------------------- claims on two conversations --------------------- *)
\* the row a store holds for tg_id, None when it holds none
RowOf(store, tg_id) == IF tg_id \in DOMAIN store THEN Some(store[tg_id]) ELSE None

\* C21: an event of identity u leaves the conversation state, the user_data and
\* the stored rows (PostgreSQL's and the in-process store's) of every other
\* identity v as they were; what get_user gives for v changes only in a step
\* that changes the Persistence Mode.
C21_IsolationStep ==
  \A u, v \in Identities :
    (last'.op # "init_db" /\ last'.tg_id = u /\ v # u) =>
       /\ StateOf(v)' = StateOf(v)
       /\ user_data'[v] = user_data[v]
       /\ RowOf(pg_users, v)' = RowOf(pg_users, v)
       /\ RowOf(_mem_users_by_tg, v)' = RowOf(_mem_users_by_tg, v)
       /\ Visible(v)' # Visible(v) => _IN_MEMORY_MODE' # _IN_MEMORY_MODE

C21_ConversationsIsolated == [][C21_IsolationStep]_vars

\* an event of identity 1 has switched to the in-process store and set a query
\* point while identity 2, with a row in PostgreSQL, is choosing a category
C21_Witness ==
  /\ last.op = "on_location_or_text"
  /\ last.tg_id = 1
  /\ last.failed
  /\ _IN_MEMORY_MODE
  /\ QueryPoint(user_data[1]) # None
  /\ 2 \in DOMAIN pg_users
  /\ StateOf(2) = Some("CHOOSE_CATEGORY")
  /\ QueryPoint(user_data[2]) # QueryPoint(user_data[1])

(* ---------------------- claims on the update queue ---------------------- *)
\* the handler awaits asyncio.to_thread(...): on_location_or_text awaits
\* reverse_geocode for a location
Offloads(r) == r.name = "on_location_or_text" /\ r.ev.kind = "location"

Pending(u) == {i \in 1..Len(update_queue) : update_queue[i].u = u}

\* a handler of a conversation runs alone in its conversation and was started
\* for an update older than every pending update of that conversation
C22_OneAtATime ==
  \A r \in running :
    /\ \A q \in running : q.u = r.u => q = r
    /\ \A i \in Pending(r.u) : update_queue[i].n > r.n

\* the state and the query point of a conversation change only when the handler
\* that runs for it finishes
C22_OnlyTheRunningHandler ==
  \A u \in Identities :
    (StateOf(u)' # StateOf(u) \/ user_data'[u] # user_data[u]) =>
       \E r \in running : r.u = u /\ r \notin running'

\* while a handler is suspended on an offloaded call, the next update, when it
\* belongs to another conversation, can be taken
C22_OthersNotStalled ==
  (/\ \E r \in running : Offloads(r)
   /\ update_queue # <<>>
   /\ \A r \in running : r.u # Head(update_queue).u) => ENABLED Take

\* C22: the updates of one conversation are handled in arrival order, the
\* handler of the next one starting only after the handler of the one before
\* has finished, also while that handler is suspended on an offloaded call;
\* during the suspension an update of another conversation may be handled.
C22_InOrderAndNotStalled ==
  [](C22_OneAtATime /\ C22_OthersNotStalled) /\ [][C22_OnlyTheRunningHandler]_vars

\* the ordering part alone: what holds of the update queue as it is built
C22_InOrder == []C22_OneAtATime /\ [][C22_OnlyTheRunningHandler]_vars

(* --------------- claims on the stores, for two identities --------------- *)
DistinctIds(store) ==
  \A a, b \in DOMAIN store : a # b => store[a].id # store[b].id

\* C23: the calls of two conversations interleave call by call, and each call
\* that ends on the in-process store (also the call whose failure switches to
\* it) takes effect as a whole: upsert_user leaves the rows of the other
\* identities as they were and writes every value it was given into the row of
\* its identity, keeping the row's other values; rows have pairwise distinct
\* ids; get_user returns the whole row and changes no row.
C23_StoreStep ==
  \A u \in Identities :
    /\ (last'.op = "upsert_user" /\ last'.tg_id = u /\ _IN_MEMORY_MODE') =>
         /\ \A v \in Identities \ {u} :
               RowOf(_mem_users_by_tg, v)' = RowOf(_mem_users_by_tg, v)
         /\ u \in DOMAIN _mem_users_by_tg'
         /\ \A n \in FieldNames :
               _mem_users_by_tg'[u][n] =
                  Coalesce(last'.f[n], FieldOf(RowOf(_mem_users_by_tg, u), n))
         /\ DistinctIds(_mem_users_by_tg')
    /\ (last'.op = "get_user" /\ last'.tg_id = u /\ _IN_MEMORY_MODE') =>
         /\ last'.row = RowOf(_mem_users_by_tg, u)
         /\ _mem_users_by_tg' = _mem_users_by_tg

Tagged(results, types) == {i \in 1..Len(results) : results[i].types \cap types # {}}
First(S) == CHOOSE i \in S : \A j \in S : i <= j

\* the choice C24 describes
Preferred(data) ==
  LET results == data.results
      area == Tagged(results, {"sublocality", "sublocality_level_1", "neighborhood"})
      road == Tagged(results, {"route"})
      town == Tagged(results, {"locality", "administrative_area_level_2"})
  IN IF results = <<>> THEN None
     ELSE IF area # {} THEN results[First(area)].formatted_address
     ELSE IF road # {} THEN results[First(road)].formatted_address
     ELSE IF town # {} THEN results[First(town)].formatted_address
     ELSE IF data.plus_code.compound_code # None THEN data.plus_code.compound_code
     ELSE IF data.plus_code.global_code # None THEN data.plus_code.global_code
     ELSE results[1].formatted_address

CanonicalKeys ==
  <<<<"Restaurant">>, <<"Hotel">>, <<"Park">>, <<"Historic", " ", "Places">>>>

\* C25: the i-th category label of the user's language is translated to the
\* i-th canonical key, in each of the three languages; the search for a
\* canonical key is sent with a type filter that is not empty and is the same
\* whatever the language or the way the key arrived; the search for any other
\* key is sent without a type filter.
C25_CategoryFilters ==
  last.op = "on_choose_category" =>
     /\ \A i \in 1..4 :
          last.ev = Text(L_categories(last.lang)[i]) =>
             last.category_key = Some(CanonicalKeys[i])
     /\ \A i \in 1..4 :
          last.category_key = Some(CanonicalKeys[i]) =>
             /\ last.body # None
             /\ The(last.body).includedTypes # None
             /\ The(The(last.body).includedTypes) # <<>>
             /\ The(last.body).includedTypes = _type_filter_for_category(CanonicalKeys[i])
     /\ (last.category_key # None
           /\ \A i \in 1..4 : last.category_key # Some(CanonicalKeys[i])) =>
             /\ last.body # None
             /\ The(last.body).includedTypes = None

\* a Russian user's fourth label has been sent as a search for Historic Places
\* with its three types
C25_Witness ==
  /\ last.op = "on_choose_category"
  /\ last.lang = <<"ru">>
  /\ last.ev = Text(L_categories(<<"ru">>)[4])
  /\ last.category_key = Some(<<"Historic", " ", "Places">>)
  /\ The(last.body).includedTypes = Some(<<"tourist_attraction", "museum", "art_gallery">>)

(* ------------------------- claims on search_text ------------------------ *)
\* C26: search_text returns None or a pair of a latitude and a longitude that
\* are both present.
C26_CompleteCoordinate ==
  (last.op = "search_text" /\ ~last.raised) =>
     \/ last.val = None
     \/ The(last.val)[1] # None /\ The(last.val)[2] # None

(* ------------------- claims on restarting registration ------------------ *)
RegistrationStates == {"LANG", "FIRST_NAME", "LAST_NAME", "CONTACT"}

\* C27: start, for a conversation in LANG, FIRST_NAME, LAST_NAME or CONTACT,
\* leaves a row of the identity behind and leaves every attribute the row held
\* as it was; no handler of a registration state turns a stored attribute into
\* None.
C27_RestartStep ==
  \A u \in Users :
    /\ (last'.op = "start" /\ last'.tg_id = u /\ StateOf(u) # None
          /\ The(StateOf(u)) \in RegistrationStates) =>
         /\ Visible(u)' # None
         /\ \A n \in FieldNames :
              FieldOf(Visible(u), n) # None =>
                 FieldOf(Visible(u)', n) = FieldOf(Visible(u), n)
    /\ (last'.op \in DOMAIN RegistrationSteps /\ last'.tg_id = u) =>
         \A n \in FieldNames :
            FieldOf(Visible(u), n) # None => FieldOf(Visible(u)', n) # None

C27_RestartLosesNothing == [][C27_RestartStep]_vars

(* ------------------- claims on the records of the store ----------------- *)
\* every internal id the in-process store has issued is below _mem_next_id
IssuedBelowNext(store, next) == \A u \in DOMAIN store : store[u].id < next

C28_RecordsState ==
  /\ \A u \in DOMAIN _mem_users_by_tg : _mem_users_by_tg[u].tg_id = u
  /\ DistinctIds(_mem_users_by_tg)
  /\ IssuedBelowNext(_mem_users_by_tg, _mem_next_id)
  /\ \A u \in DOMAIN pg_users : pg_users[u].tg_id = u

C28_RecordsStep ==
  /\ DOMAIN _mem_users_by_tg \subseteq DOMAIN _mem_users_by_tg'
  /\ \A u \in DOMAIN _mem_users_by_tg :
        /\ _mem_users_by_tg'[u].tg_id = _mem_users_by_tg[u].tg_id
        /\ _mem_users_by_tg'[u].id = _mem_users_by_tg[u].id
  /\ \A u \in DOMAIN _mem_users_by_tg' \ DOMAIN _mem_users_by_tg :
        _mem_users_by_tg'[u].id = _mem_next_id
  /\ _mem_next_id' >= _mem_next_id
  /\ DOMAIN pg_users \subseteq DOMAIN pg_users'

\* C28: the stores are keyed by the external user id, so they hold at most one
\* record per identity, and the record filed under an identity carries that
\* identity; no call removes a record or changes its external or internal id;
\* the internal ids of the in-process store are pairwise distinct, a new record
\* takes the value of _mem_next_id, which is above every id issued so far and
\* never decreases, so no id is issued twice.
C28_RecordsUniqueAndKept == []C28_RecordsState /\ [][C28_RecordsStep]_vars

\* both identities have a record in the in-process store, the second created
\* by the last call and numbered after the first
C28_Witness ==
  /\ last.op = "upsert_user"
  /\ _IN_MEMORY_MODE
  /\ DOMAIN _mem_users_by_tg = {1, 2}
  /\ _mem_next_id = 3
  /\ {_mem_users_by_tg[1].id, _mem_users_by_tg[2].id} = {1, 2}

(* ---------------------- claims on the stored language ------------------- *)
StoredLanguages(store) == {store[u].language : u \in DOMAIN store}
SupportedOrNull == {None} \cup {Some(l) : l \in Langs}

C29_LanguageState ==
  /\ StoredLanguages(pg_users) \subseteq SupportedOrNull
  /\ StoredLanguages(_mem_users_by_tg) \subseteq SupportedOrNull
  /\ \A i \in 1..Len(out) : out[i].lang \in Langs
  /\ \A i \in 1..Len(LanguageMapping) :
        ClassifyLanguage(LanguageMapping[i][1]) = LanguageMapping[i][2]

WritesLanguage(store) ==
  \E u \in DOMAIN store' :
     store'[u].language # FieldOf(RowOf(store, u), "language")

C29_LanguageStep ==
  /\ (WritesLanguage(pg_users) \/ WritesLanguage(_mem_users_by_tg)) =>
        last'.op = "on_language"
  /\ \A u \in Users :
       (last'.op = "on_language" /\ last'.tg_id = u /\ ~last'.raised) =>
          /\ FieldOf(Visible(u)', "language") =
                Some(ClassifyLanguage(Lower(The(last'.ev.text))))
          /\ ClassifyLanguage(Lower(The(last'.ev.text))) \in Langs

\* C29: every language held by PostgreSQL or by the in-process store is null
\* or one of uz, ru, en; only on_language writes a language, and it writes the
\* code of the first vocabulary entry found in the lowered text, en when none is
\* found; every message a handler sends is looked up under one of the three
\* codes, en when no language is stored.
C29_LanguageSupported == []C29_LanguageState /\ [][C29_LanguageStep]_vars

\* a text outside the vocabulary was sent in the Language step and en is stored
C29_Witness ==
  /\ last.op = "on_language"
  /\ last.ev = Text(<<"Deutsch">>)
  /\ ~last.raised
  /\ \E u \in Users : FieldOf(Visible(u), "language") = Some(<<"en">>)

(* --------------------- claims on CategorySelection ---------------------- *)
InCategorySelection(u) == StateOf(u) = Some("CHOOSE_CATEGORY")

C30_QueryPointHeld ==
  \A u \in Users : InCategorySelection(u) => ~NoQueryPoint(user_data[u])

C30_CategoryStep ==
  last'.op # "init_db" =>
  \A u \in Users :
    /\ (last'.tg_id = u /\ ~InCategorySelection(u) /\ InCategorySelection(u)') =>
          /\ last'.op = "on_location_or_text"
          /\ ~NoQueryPoint(user_data'[u])
    /\ (last'.tg_id = u /\ InCategorySelection(u)) =>
          (NoQueryPoint(user_data'[u]) => ~InCategorySelection(u)')
    /\ (last'.op = "on_choose_category" /\ last'.tg_id = u /\ CategoryTap(u, last'.ev)) =>
          ~NoQueryPoint(user_data[u])

StoresKept ==
  /\ _mem_users_by_tg' = _mem_users_by_tg
  /\ _mem_next_id' = _mem_next_id
  /\ pg_users' = pg_users
  /\ pg_next_id' = pg_next_id
  /\ pg_table' = pg_table
  /\ DB_DRIVER' = DB_DRIVER
  /\ DB_URL' = DB_URL

C31_GetStep ==
  last'.op = "get_user" =>
    /\ StoresKept
    /\ _IN_MEMORY_MODE => _IN_MEMORY_MODE'
    /\ \A u \in Identities :
         last'.tg_id = u =>
           /\ Visible(u) = None => last'.row = None
           /\ last'.row = None => Visible(u)' = None

\* C31: get_user, for each identity and in either Persistence Mode, files no
\* row and changes no row, counter or table of PostgreSQL or of the in-process
\* store; for an identity without a row it returns None and the identity is
\* without a row afterwards; of the shared state it changes at most
\* _IN_MEMORY_MODE, and only from False to True.
C31_GetModifiesNoProfile == [][C31_GetStep]_vars

\* a get_user of an identity PostgreSQL holds a row of failed and switched to
\* the in-process store: PostgreSQL still holds the row, no row was filed
C31_Witness ==
  /\ last.op = "get_user"
  /\ last.failed
  /\ last.calls > 0
  /\ _IN_MEMORY_MODE
  /\ last.tg_id \in DOMAIN pg_users
  /\ _mem_users_by_tg = <<>>
  /\ last.row = None

====
